---- MODULE Spec2Model ----
(***************************************************************************)
(* Flowsint flow execution engine.                                         *)
(*                                                                         *)
(*   SpecCompile  compute_flow_branches (flowsint-api/app/api/routes/      *)
(*                flows.py): the depth-first exploration explore_branch    *)
(*                run as a machine with an explicit call stack, and        *)
(*                calculate_path_length run the same way.                  *)
(*   SpecOrch     FlowOrchestrator._async_scan (flowsint-core/.../core/    *)
(*                orchestrator.py): one run over a compiled branch list.   *)
(***************************************************************************)
EXTENDS Integers, Sequences, FiniteSets, TLC

\* ------------------------------------------------------------------ bounds
\* longest edge list of a flow
MaxEdges == 3

\* deepest nesting of calls the interpreter allows before it raises
\* RecursionError (sys.getrecursionlimit(), scaled to the flows drawn here)
RecursionLimit == 8

\* ------------------------------------------------------------ flow graphs
\* the node ids that the edges of a flow may name
EdgeIds == {"n1", "n2", "n3"}

TypeNode(id) == [id |-> id, type |-> "type", has_outputs |-> TRUE, class_name |-> ""]

EnricherNode(id) ==
    [id |-> id, type |-> "enricher", has_outputs |-> TRUE, class_name |-> ""]

\* an enricher node whose data.class_name is SubdomainEnricher
SubdomainNode(id) == [EnricherNode(id) EXCEPT !.class_name = "SubdomainEnricher"]

\* a node whose data holds no "outputs" descriptor
WithoutOutputs(node) == [node EXCEPT !.has_outputs = FALSE]

\* the node lists of the flows drawn: one seed slot, two seed slots, a seed
\* slot listed after an enricher, no seed slot at all, and a flow without
\* n3 (an edge that names n3 then leads to no node of the flow)
NodeLists ==
    {<<TypeNode("n1"), EnricherNode("n2"), EnricherNode("n3")>>,
     <<TypeNode("n1"), TypeNode("n2"), EnricherNode("n3")>>,
     <<EnricherNode("n1"), TypeNode("n2"), EnricherNode("n3")>>,
     <<EnricherNode("n1"), EnricherNode("n2"), EnricherNode("n3")>>,
     <<TypeNode("n1"), EnricherNode("n2")>>}

\* flows.py:332-341, the id of the synthetic error branch and of its step
ErrorId == "error"

\* float("inf")
Inf == 1000000

Min(a, b) == IF a <= b THEN a ELSE b

\* 1 + x on Python floats: 1 + inf = inf
Plus1(x) == IF x = Inf THEN Inf ELSE 1 + x

Last(s) == s[Len(s)]

Front(s) == SubSeq(s, 1, Len(s) - 1)

\* all sequences over S of length at most n
SeqsUpTo(S, n) == UNION {[1..k -> S] : k \in 0..n}

VARIABLES
    call,            \* the function under execution
    nodes,           \* the flow's node list: sequence of [id, type]
    edges,           \* the flow's edge list: sequence of [source, target]
    cpc,             \* position in compute_flow_branches
    index,           \* number of input nodes already explored
    branches,        \* the list `branches`
    branch_counter,  \* the nonlocal branch_counter
    stack,           \* call stack of explore_branch
    lists,           \* heap of the Python lists path / steps of explore_branch
    pl_stack,        \* call stack of calculate_path_length
    pl_result,       \* value returned by the outermost calculate_path_length
    enricher_outputs,  \* the dict enricher_outputs: node id -> outputs placeholder
    recompiled,        \* compute_flow_branches was called again on the same flow
    previous_branches  \* what the call before the current one returned

compileVars == <<call, nodes, edges, cpc, index, branches, branch_counter,
                 stack, lists, pl_stack, pl_result, enricher_outputs, recompiled,
                 previous_branches>>

VARIABLES
    enricher_branches,      \* self.enricher_branches
    values,                 \* the seed values handed to scan
    opc,                    \* position in _async_scan
    bi,                     \* branches of the run already left
    si,                     \* steps of the current branch already left
    enricher_inputs,        \* the local enricher_inputs
    branch_results,         \* branch_results["steps"]
    step_result,            \* the local step_result of the step last begun
    results,                \* the dict `results` that scan returns
    results_mapping,        \* output reference -> value
    enricher_results_cache, \* cache_key -> outputs
    execution_log,          \* the execution log file
    executions,             \* the calls of enricher.execute so far: <<nodeId, inputs>>
    scan_calls,             \* the calls of scan on this orchestrator so far
    behaviour,              \* what execute of each enricher does, when it is fixed
    previous_results        \* what the call of scan before the current one returned

orchVars == <<enricher_branches, values, opc, bi, si, enricher_inputs, branch_results,
              step_result, results, results_mapping, enricher_results_cache,
              execution_log, executions, scan_calls, behaviour, previous_results>>

VARIABLES
    scans,         \* the Scan table: task id -> row
    request,       \* the job: self.request.id and the task's arguments
    tpc,           \* position of the worker in run_enricher
    attempt,       \* deliveries of the job so far
    task_result,   \* what run_enricher returned or raised
    writes,        \* statuses the current delivery committed to its row
    executed,      \* enricher.execute was called in the current delivery
    cancelled,     \* the row was marked failed from outside during the run
    begun_after,   \* execute was called after the row had been marked failed
    response,      \* the HTTP status the launch route answered with
    scan_invoked   \* the enricher's scan was entered in the current delivery

taskVars == <<scans, request, tpc, attempt, task_result, writes, executed,
              cancelled, begun_after, response, scan_invoked>>

VARIABLES
    graph_nodes,   \* the graph's nodes: <<type, primary key>> -> properties
    graph_edges,   \* the graph's edges: <<source, target, type, hash>> -> properties
    runs,          \* the graph writes of each run, in program order
    gpc,           \* calls each run has already made
    applied        \* the calls made so far, in the order the database ran them

graphVars == <<graph_nodes, graph_edges, runs, gpc, applied>>

VARIABLES
    secret_param,  \* params[P]: the vault entry identifier the user chose, or "None"
    vault,         \* the user's vault: identifier or logical name -> value or "None"
    environ,       \* os.environ[P], or "None"
    vault_calls,   \* the keys vault.get_secret was called with, in order
    secret,        \* what the enricher ends up using for P
    env_read,      \* the environment's value decided the result
    spc            \* position of the resolution

secretVars == <<secret_param, vault, environ, vault_calls, secret, env_read, spc>>

VARIABLES
    types,            \* TypeRegistry._types: class name -> class
    lowercase_types,  \* TypeRegistry._lowercase_types: lower-case name -> class
    registered,       \* the classes register was called with so far
    looked_up         \* the last lookup: the name, get(name), get_lowercase(name)

registryVars == <<types, lowercase_types, registered, looked_up>>

VARIABLES
    node_data,     \* the record clean_neo4j_node_data is called with
    cleaned,       \* what it returned
    cleaned_again, \* what it returned for `cleaned`
    kpc            \* position of the caller

cleanVars == <<node_data, cleaned, cleaned_again, kpc>>

libVars == <<secretVars, registryVars, cleanVars>>

vars == <<compileVars, orchVars, taskVars, graphVars, libVars>>

\* no secret is being resolved
IdleSecret ==
    /\ secret_param = "None"
    /\ vault = <<>>
    /\ environ = "None"
    /\ vault_calls = <<>>
    /\ secret = "None"
    /\ env_read = FALSE
    /\ spc = "none"

\* no type registry is in use
IdleRegistry ==
    /\ types = <<>>
    /\ lowercase_types = <<>>
    /\ registered = {}
    /\ looked_up = <<>>

\* no record is being cleaned
IdleClean ==
    /\ node_data = <<>>
    /\ cleaned = <<>>
    /\ cleaned_again = <<>>
    /\ kpc = "none"

IdleLib == IdleSecret /\ IdleRegistry /\ IdleClean

\* no run_enricher job exists
IdleTask ==
    /\ scans = <<>>
    /\ request = <<>>
    /\ tpc = "none"
    /\ attempt = 0
    /\ task_result = <<>>
    /\ writes = <<>>
    /\ executed = FALSE
    /\ cancelled = FALSE
    /\ begun_after = FALSE
    /\ response = "none"
    /\ scan_invoked = FALSE

\* no run writes to the graph
IdleGraph ==
    /\ graph_nodes = <<>>
    /\ graph_edges = <<>>
    /\ runs = <<>>
    /\ gpc = <<>>
    /\ applied = <<>>

\* ------------------------------------------------- compute_flow_branches
\* node_map = {node.id: node for node in nodes}
node_map == [id \in {nodes[i].id : i \in 1..Len(nodes)} |->
                (CHOOSE i \in 1..Len(nodes) : nodes[i].id = id
                    /\ \A j \in i + 1..Len(nodes) : nodes[j].id # id)]

InNodeMap(id) == id \in DOMAIN node_map

\* input_nodes = [node for node in nodes if node.data.get("type") == "type"]
input_nodes == SelectSeq(nodes, LAMBDA n : n.type = "type")

\* [edge for edge in edges if edge.source == node_id]
OutEdges(node_id) == SelectSeq(edges, LAMBDA e : e.source = node_id)

RECURSIVE calculate_path_length(_, _)
RECURSIVE MinOverEdges(_, _, _, _)
\* the loop `for edge in out_edges: min_length = min(min_length, length)`
MinOverEdges(out_edges, k, visited, min_length) ==
    IF k > Len(out_edges) THEN min_length
    ELSE MinOverEdges(out_edges, k + 1, visited,
             Min(min_length, calculate_path_length(out_edges[k].target, visited)))

\* shortest possible path length from a node to any leaf
calculate_path_length(start_node, visited) ==
    IF start_node \in visited THEN Inf
    ELSE LET visited1 == visited \cup {start_node}
             out_edges == OutEdges(start_node)
         IN  IF out_edges = <<>> THEN 1
             ELSE Plus1(MinOverEdges(out_edges, 1, visited1, Inf))

\* a sort that puts the longest branch first
SortedByKeyDescending(s, keys) ==
    LET rank(i) == Cardinality({j \in 1..Len(s) :
                        keys[j] > keys[i] \/ (keys[j] = keys[i] /\ j < i)}) + 1
    IN  [r \in 1..Len(s) |-> s[CHOOSE i \in 1..Len(s) : rank(i) = r]]

\* sorted(s, key): Python's sort is stable
SortedByKey(s, keys) ==
    LET rank(i) == Cardinality({j \in 1..Len(s) :
                        keys[j] < keys[i] \/ (keys[j] = keys[i] /\ j < i)}) + 1
    IN  [r \in 1..Len(s) |-> s[CHOOSE i \in 1..Len(s) : rank(i) = r]]

\* every edge of the flow, whatever its source
get_outgoing_edges_unfiltered(node_id) == edges

\* outgoing edges sorted by the shortest possible path length of their target
get_outgoing_edges(node_id) ==
    LET out_edges == OutEdges(node_id)
    IN  SortedByKey(out_edges,
            [k \in 1..Len(out_edges) |-> calculate_path_length(out_edges[k].target, {})])

\* an id that keeps the seed index alone
BranchIdFlat(parts) == [tag |-> "branch", parts |-> <<parts[1]>>]

\* f"branch-{index}" and f"{branch_id}-{branch_counter}": the numbers of the id
BranchId(parts) == [tag |-> "branch", parts |-> parts]

\* a dict of one entry, and the empty dict
Data(name, value) == [name |-> name, value |-> value]

NoData == Data("", <<>>)

\* d.get(key, default)
Get(d, key, default) == IF d.name = key THEN d.value ELSE default

\* generate_sample_data("string"), as a list of text pieces
InitialValue == <<"sample_text">>

\* the one output every node of the flows drawn declares
OutputName == "output"

\* flows.py:540-601 for the class names SubdomainEnricher and unknown
process_node_data(node, inputs) ==
    IF node.class_name = "SubdomainEnricher"
    THEN Data(OutputName, <<"sub.">> \o Get(inputs, "input", <<"example.com">>))
    ELSE Data(OutputName, IF Get(inputs, "input", <<>>) = <<>>
                          THEN <<"flowed_", OutputName>>
                          ELSE Get(inputs, "input", <<>>))

\* the outputs of a node computed at every visit
current_outputs_uncached(node, input_data) ==
    IF node.type = "type"
    THEN Data(OutputName, InitialValue)
    ELSE process_node_data(node, input_data)

\* flows.py:422-437
current_outputs(node, input_data) ==
    IF node.type = "type"
    THEN Data(OutputName, InitialValue)
    ELSE IF node.id \in DOMAIN enricher_outputs
         THEN enricher_outputs[node.id]
         ELSE process_node_data(node, input_data)

\* flows.py:468-479 for edges without handles: the first output of the
\* source, under the key "input"
next_input(outputs) == Data("input", outputs.value)

create_step(node_id, branch_id, depth, input_data, is_input_node, outputs) ==
    [nodeId |-> node_id,
     inputs |-> IF is_input_node THEN NoData ELSE input_data,
     outputs |-> outputs,
     type |-> IF is_input_node THEN "type" ELSE "enricher",
     status |-> "pending",
     branchId |-> branch_id,
     depth |-> depth]

\* a synthetic branch whose step was left as create_step makes steps
ErrorBranchPending ==
    [id |-> [tag |-> ErrorId, parts |-> <<>>],
     steps |-> <<[nodeId |-> ErrorId, inputs |-> NoData, outputs |-> NoData,
                  type |-> "enricher", status |-> "pending",
                  branchId |-> [tag |-> ErrorId, parts |-> <<>>], depth |-> 0]>>]

\* flows.py:329-346: the synthetic error branch
ErrorBranch ==
    [id |-> [tag |-> ErrorId, parts |-> <<>>],
     steps |-> <<[nodeId |-> ErrorId, inputs |-> NoData, outputs |-> NoData,
                  type |-> "error", status |-> "error",
                  branchId |-> [tag |-> ErrorId, parts |-> <<>>], depth |-> 0]>>]

\* a cycle test that looks at the caller only
InPathParentOnly(node_id, path) == path # <<>> /\ path[Len(path)] = node_id

\* `target in path`, the cycle test of explore_branch
InPath(node_id, path) == \E i \in 1..Len(path) : path[i] = node_id

Frame(node_id, branch_id, depth, path, steps, input_data) ==
    [node |-> node_id, branch_id |-> branch_id, depth |-> depth,
     path |-> path, steps |-> steps, input_data |-> input_data, outputs |-> NoData,
     pc |-> "enter", out_edges |-> <<>>, i |-> 0]

Top == stack[Len(stack)]

SetTop(f) == [stack EXCEPT ![Len(stack)] = f]

\* what explore_branch and the body of compute_flow_branches leave alone
UnchangedOutsideExplore ==
    UNCHANGED <<pl_stack, pl_result, recompiled, previous_branches,
                orchVars, taskVars, graphVars, libVars>>

UnchangedPathLength == UnchangedOutsideExplore /\ UNCHANGED enricher_outputs

\* flows.py:327-352
Start ==
    /\ call = "compute_flow_branches"
    /\ cpc = "start"
    /\ IF input_nodes = <<>>
       THEN /\ branches' = <<ErrorBranch>>
            /\ cpc' = "done"
       ELSE /\ branches' = <<>>
            /\ cpc' = "seeds"
    /\ enricher_outputs' = <<>>
    /\ UNCHANGED <<call, nodes, edges, index, branch_counter, stack, lists>>
    /\ UnchangedOutsideExplore

\* flows.py:520-533, one turn of `for index, input_node in enumerate(input_nodes)`
NextSeed ==
    /\ cpc = "seeds"
    /\ stack = <<>>
    /\ index < Len(input_nodes)
    /\ lists' = lists \o <<(<<>>), (<<>>)>>
    /\ stack' = <<Frame(input_nodes[index + 1].id, BranchId(<<index>>), 0,
                        Len(lists) + 1, Len(lists) + 2, NoData)>>
    /\ index' = index + 1
    /\ UNCHANGED <<call, nodes, edges, cpc, branches, branch_counter>>
    /\ UnchangedPathLength

\* flows.py:535-537
SortBranches ==
    /\ cpc = "seeds"
    /\ stack = <<>>
    /\ index = Len(input_nodes)
    /\ branches' = SortedByKey(branches, [k \in 1..Len(branches) |-> Len(branches[k].steps)])
    /\ cpc' = "done"
    /\ UNCHANGED <<call, nodes, edges, index, branch_counter, stack, lists>>
    /\ UnchangedPathLength

\* flows.py:414-420, the two early returns of explore_branch
ExploreReturnEarly ==
    /\ stack # <<>>
    /\ Top.pc = "enter"
    /\ InPath(Top.node, lists[Top.path]) \/ ~InNodeMap(Top.node)
    /\ stack' = Front(stack)
    /\ UNCHANGED <<call, nodes, edges, cpc, index, branches, branch_counter, lists>>
    /\ UnchangedPathLength

\* flows.py:422-457
ExploreVisit ==
    /\ stack # <<>>
    /\ Top.pc = "enter"
    /\ ~InPath(Top.node, lists[Top.path])
    /\ InNodeMap(Top.node)
    /\ nodes[node_map[Top.node]].has_outputs
    /\ LET current_node == nodes[node_map[Top.node]]
           is_input_node == current_node.type = "type"
           outputs == current_outputs(current_node, Top.input_data)
           current_step == create_step(Top.node, Top.branch_id, Top.depth,
                                       Top.input_data, is_input_node, outputs)
       IN  /\ enricher_outputs' =
                 IF is_input_node \/ Top.node \in DOMAIN enricher_outputs
                 THEN enricher_outputs
                 ELSE (Top.node :> outputs) @@ enricher_outputs
           /\ lists' = [lists EXCEPT ![Top.steps] = Append(@, current_step),
                                      ![Top.path] = Append(@, Top.node)]
           /\ stack' = SetTop([Top EXCEPT !.pc = "loop", !.i = 0, !.outputs = outputs,
                                          !.out_edges = get_outgoing_edges(Top.node)])
    /\ UNCHANGED <<call, nodes, edges, cpc, index, branches, branch_counter>>
    /\ UnchangedOutsideExplore

\* flows.py:422-437 and 543: current_node.data["outputs"] raises KeyError,
\* which no caller up to compute_flow_branches catches
ExploreRaises ==
    /\ stack # <<>>
    /\ Top.pc = "enter"
    /\ ~InPath(Top.node, lists[Top.path])
    /\ InNodeMap(Top.node)
    /\ ~nodes[node_map[Top.node]].has_outputs
    /\ stack' = <<>>
    /\ cpc' = "raised"
    /\ UNCHANGED <<call, nodes, edges, index, branches, branch_counter, lists>>
    /\ UnchangedPathLength

\* a branch saved at whatever node the walk stands on
ExploreLeafEarly ==
    /\ stack # <<>>
    /\ Top.pc = "loop"
    /\ branches' = Append(branches, [id |-> Top.branch_id, steps |-> lists[Top.steps]])
    /\ lists' = [lists EXCEPT ![Top.steps] = Front(@), ![Top.path] = Front(@)]
    /\ stack' = Front(stack)
    /\ UNCHANGED <<call, nodes, edges, cpc, index, branch_counter>>
    /\ UnchangedPathLength

\* flows.py:459-461 then 515-517: a leaf saves the branch and backtracks
ExploreLeaf ==
    /\ stack # <<>>
    /\ Top.pc = "loop"
    /\ Top.out_edges = <<>>
    /\ branches' = Append(branches, [id |-> Top.branch_id, steps |-> lists[Top.steps]])
    /\ lists' = [lists EXCEPT ![Top.steps] = Front(@), ![Top.path] = Front(@)]
    /\ stack' = Front(stack)
    /\ UNCHANGED <<call, nodes, edges, cpc, index, branch_counter>>
    /\ UnchangedPathLength

\* flows.py:464-466
ExploreSkip ==
    /\ stack # <<>>
    /\ Top.pc = "loop"
    /\ Top.i < Len(Top.out_edges)
    /\ InPath(Top.out_edges[Top.i + 1].target, lists[Top.path])
    /\ stack' = SetTop([Top EXCEPT !.i = @ + 1])
    /\ UNCHANGED <<call, nodes, edges, cpc, index, branches, branch_counter, lists>>
    /\ UnchangedPathLength

\* flows.py:481-493, i == 0: continue in the same branch, on the same lists
ExploreContinue ==
    /\ stack # <<>>
    /\ Len(stack) < RecursionLimit
    /\ Top.pc = "loop"
    /\ Top.i < Len(Top.out_edges)
    /\ ~InPath(Top.out_edges[Top.i + 1].target, lists[Top.path])
    /\ Top.i = 0
    /\ stack' = Append(SetTop([Top EXCEPT !.i = @ + 1]),
                       Frame(Top.out_edges[Top.i + 1].target, Top.branch_id,
                             Top.depth + 1, Top.path, Top.steps, next_input(Top.outputs)))
    /\ UNCHANGED <<call, nodes, edges, cpc, index, branches, branch_counter, lists>>
    /\ UnchangedPathLength

\* flows.py:494-513, i > 0: a new branch on copies of steps and path
ExploreFork ==
    /\ stack # <<>>
    /\ Len(stack) < RecursionLimit
    /\ Top.pc = "loop"
    /\ Top.i < Len(Top.out_edges)
    /\ ~InPath(Top.out_edges[Top.i + 1].target, lists[Top.path])
    /\ Top.i # 0
    /\ branch_counter' = branch_counter + 1
    /\ lists' = lists \o <<lists[Top.path], lists[Top.steps]>>
    /\ stack' = Append(SetTop([Top EXCEPT !.i = @ + 1]),
                       Frame(Top.out_edges[Top.i + 1].target,
                             BranchId(Append(Top.branch_id.parts, branch_counter + 1)),
                             Top.depth + 1, Len(lists) + 1, Len(lists) + 2,
                             next_input(Top.outputs)))
    /\ UNCHANGED <<call, nodes, edges, cpc, index, branches>>
    /\ UnchangedPathLength

\* flows.py:515-517, after the loop over the outgoing edges
ExploreBacktrack ==
    /\ stack # <<>>
    /\ Top.pc = "loop"
    /\ Top.out_edges # <<>>
    /\ Top.i = Len(Top.out_edges)
    /\ lists' = [lists EXCEPT ![Top.steps] = Front(@), ![Top.path] = Front(@)]
    /\ stack' = Front(stack)
    /\ UNCHANGED <<call, nodes, edges, cpc, index, branches, branch_counter>>
    /\ UnchangedPathLength

\* ------------------------------- calculate_path_length as a stack machine
PLFrame(start_node, visited) ==
    [start |-> start_node, visited |-> visited, pc |-> "enter",
     out_edges |-> <<>>, k |-> 1, min_length |-> Inf]

PLTop == pl_stack[Len(pl_stack)]

\* `return v`: the caller takes min(min_length, length) and moves to the next edge
PLReturn(v) ==
    IF Len(pl_stack) = 1
    THEN /\ pl_stack' = <<>>
         /\ pl_result' = v
         /\ cpc' = "done"
    ELSE /\ pl_stack' = [Front(pl_stack) EXCEPT ![Len(pl_stack) - 1] =
                            [@ EXCEPT !.min_length = Min(@, v), !.k = @ + 1]]
         /\ UNCHANGED <<pl_result, cpc>>

UnchangedExplore ==
    UNCHANGED <<call, nodes, edges, index, branches, branch_counter, stack, lists,
                enricher_outputs, recompiled, previous_branches,
                orchVars, taskVars, graphVars, libVars>>

\* flows.py:359-360
PLVisited ==
    /\ pl_stack # <<>>
    /\ PLTop.pc = "enter"
    /\ PLTop.start \in PLTop.visited
    /\ PLReturn(Inf)
    /\ UnchangedExplore

\* flows.py:362-366
PLLeaf ==
    /\ pl_stack # <<>>
    /\ PLTop.pc = "enter"
    /\ PLTop.start \notin PLTop.visited
    /\ OutEdges(PLTop.start) = <<>>
    /\ PLReturn(1)
    /\ UnchangedExplore

\* flows.py:362-368
PLOpen ==
    /\ pl_stack # <<>>
    /\ PLTop.pc = "enter"
    /\ PLTop.start \notin PLTop.visited
    /\ OutEdges(PLTop.start) # <<>>
    /\ pl_stack' = [pl_stack EXCEPT ![Len(pl_stack)] =
                       [@ EXCEPT !.pc = "loop", !.visited = @ \cup {PLTop.start},
                                 !.out_edges = OutEdges(PLTop.start)]]
    /\ UNCHANGED <<pl_result, cpc>>
    /\ UnchangedExplore

\* flows.py:369-370, the recursive call on visited.copy()
PLCall ==
    /\ pl_stack # <<>>
    /\ Len(pl_stack) < RecursionLimit
    /\ PLTop.pc = "loop"
    /\ PLTop.k <= Len(PLTop.out_edges)
    /\ pl_stack' = Append(pl_stack, PLFrame(PLTop.out_edges[PLTop.k].target, PLTop.visited))
    /\ UNCHANGED <<pl_result, cpc>>
    /\ UnchangedExplore

\* flows.py:373
PLDone ==
    /\ pl_stack # <<>>
    /\ PLTop.pc = "loop"
    /\ PLTop.k > Len(PLTop.out_edges)
    /\ PLReturn(Plus1(PLTop.min_length))
    /\ UnchangedExplore

\* ------------------------------------------------------------ SpecCompile
\* no orchestrator exists
IdleOrch ==
    /\ enricher_branches = <<>>
    /\ values = <<>>
    /\ opc = "none"
    /\ bi = 0
    /\ si = 0
    /\ enricher_inputs = <<>>
    /\ branch_results = <<>>
    /\ step_result = <<>>
    /\ results = <<>>
    /\ results_mapping = <<>>
    /\ enricher_results_cache = <<>>
    /\ execution_log = <<>>
    /\ executions = <<>>
    /\ scan_calls = 0
    /\ behaviour = <<>>
    /\ previous_results = <<>>

EdgeSet == [source : EdgeIds, target : EdgeIds]

\* a call of compute_flow_branches on a flow, or a call of
\* calculate_path_length(n1) on its edges (the edge lists drawn treat the
\* three ids alike, so one start node stands for all)
InitCompile ==
    /\ call \in {"compute_flow_branches", "calculate_path_length"}
    /\ edges \in SeqsUpTo(EdgeSet, MaxEdges)
    /\ IF call = "compute_flow_branches"
       THEN /\ nodes \in NodeLists
            /\ pl_stack = <<>>
       ELSE /\ nodes = <<EnricherNode("n1"), EnricherNode("n2"), EnricherNode("n3")>>
            /\ pl_stack = <<PLFrame("n1", {})>>
    /\ cpc = "start"
    /\ index = 0
    /\ branches = <<>>
    /\ branch_counter = 0
    /\ stack = <<>>
    /\ lists = <<>>
    /\ pl_result = 0
    /\ enricher_outputs = <<>>
    /\ recompiled = FALSE
    /\ previous_branches = <<>>
    /\ IdleOrch
    /\ IdleTask
    /\ IdleGraph
    /\ IdleLib

NextCompile ==
    \/ Start
    \/ NextSeed
    \/ SortBranches
    \/ ExploreReturnEarly
    \/ ExploreVisit
    \/ ExploreLeaf
    \/ ExploreSkip
    \/ ExploreContinue
    \/ ExploreFork
    \/ ExploreBacktrack
    \/ PLVisited
    \/ PLLeaf
    \/ PLOpen
    \/ PLCall
    \/ PLDone

SpecCompile == InitCompile /\ [][NextCompile]_vars

\* edges drawn on top of a fork at the seed slot
ForkEdges == 2

\* flows that fork at their seed slot n1, towards n2 and n3, with up to
\* ForkEdges further edges (a fork inside a forked branch takes four edges)
InitCompileForks ==
    /\ call = "compute_flow_branches"
    /\ nodes = <<TypeNode("n1"), EnricherNode("n2"), EnricherNode("n3")>>
    /\ \E more \in SeqsUpTo(EdgeSet, ForkEdges) :
          edges = <<[source |-> "n1", target |-> "n2"],
                    [source |-> "n1", target |-> "n3"]>> \o more
    /\ pl_stack = <<>>
    /\ cpc = "start"
    /\ index = 0
    /\ branches = <<>>
    /\ branch_counter = 0
    /\ stack = <<>>
    /\ lists = <<>>
    /\ pl_result = 0
    /\ enricher_outputs = <<>>
    /\ recompiled = FALSE
    /\ previous_branches = <<>>
    /\ IdleOrch
    /\ IdleTask
    /\ IdleGraph
    /\ IdleLib

NextCompileForks ==
    \/ Start
    \/ NextSeed
    \/ SortBranches
    \/ ExploreVisit
    \/ ExploreLeaf
    \/ ExploreSkip
    \/ ExploreContinue
    \/ ExploreFork
    \/ ExploreBacktrack

SpecCompileForks == InitCompileForks /\ [][NextCompileForks]_vars

\* flows with a malformed part: an enricher without outputs descriptor, a
\* seed slot without outputs descriptor, an edge to n3 that is no node
MalformedNodeLists ==
    {<<TypeNode("n1"), WithoutOutputs(EnricherNode("n2")), EnricherNode("n3")>>,
     <<WithoutOutputs(TypeNode("n1")), EnricherNode("n2"), EnricherNode("n3")>>,
     <<TypeNode("n1"), EnricherNode("n2")>>}

InitCompileMalformed ==
    /\ call = "compute_flow_branches"
    /\ edges \in SeqsUpTo(EdgeSet, MaxEdges)
    /\ nodes \in MalformedNodeLists
    /\ pl_stack = <<>>
    /\ cpc = "start"
    /\ index = 0
    /\ branches = <<>>
    /\ branch_counter = 0
    /\ stack = <<>>
    /\ lists = <<>>
    /\ pl_result = 0
    /\ enricher_outputs = <<>>
    /\ recompiled = FALSE
    /\ previous_branches = <<>>
    /\ IdleOrch
    /\ IdleTask
    /\ IdleGraph
    /\ IdleLib

NextCompileMalformed ==
    \/ Start
    \/ NextSeed
    \/ SortBranches
    \/ ExploreReturnEarly
    \/ ExploreVisit
    \/ ExploreRaises
    \/ ExploreLeaf
    \/ ExploreSkip
    \/ ExploreContinue
    \/ ExploreFork
    \/ ExploreBacktrack

SpecCompileMalformed == InitCompileMalformed /\ [][NextCompileMalformed]_vars

\* The flows of the termination check: every edge list over the three ids,
\* on a flow with two seed slots and on a flow in which n3 is no node.
FairNodeLists ==
    {<<TypeNode("n1"), TypeNode("n2"), EnricherNode("n3")>>,
     <<TypeNode("n1"), EnricherNode("n2")>>}

InitCompileFair ==
    /\ InitCompile
    /\ call = "compute_flow_branches" => nodes \in FairNodeLists

\* compute_flow_branches is synchronous, CPU-bound code: the interpreter
\* always takes the next step of the call in progress.
SpecCompileFair == InitCompileFair /\ [][NextCompile]_vars /\ WF_vars(NextCompile)

\* compute_flow_branches has returned `branches`
Returned == call = "compute_flow_branches" /\ cpc = "done"

NoRepeatedNode(steps) ==
    \A i, j \in 1..Len(steps) : steps[i].nodeId = steps[j].nodeId => i = j

\* C1: no branch saved or returned by compute_flow_branches holds the same
\* nodeId in two of its steps, whatever the flow (cycles and self-loops
\* included).
C1_NoNodeTwice == \A b \in 1..Len(branches) : NoRepeatedNode(branches[b].steps)

\* C1 witness: a returned branch that an edge of the flow leads back into
\* (from a later step to an earlier one, or from a step to itself).
C1_Witness ==
    /\ Returned
    /\ \E b \in 1..Len(branches) : \E i, j \in 1..Len(branches[b].steps) :
          /\ i <= j
          /\ Len(branches[b].steps) >= 3
          /\ \E e \in 1..Len(edges) :
                /\ edges[e].source = branches[b].steps[j].nodeId
                /\ edges[e].target = branches[b].steps[i].nodeId

\* C2: compute_flow_branches and calculate_path_length both finish on every
\* flow, cyclic ones included.
C2_Terminates == <>(cpc = "done")

\* C2 witness: a finished calculate_path_length that met a node again on its
\* way (it returned infinity), and below a finished exploration of a flow
\* with a two-node cycle.
C2_Witness ==
    \/ /\ call = "calculate_path_length"
       /\ cpc = "done"
       /\ pl_result = Inf
    \/ /\ Returned
       /\ \E e, f \in 1..Len(edges) :
             /\ edges[e].source = edges[f].target
             /\ edges[e].target = edges[f].source
             /\ edges[e].source # edges[e].target
             /\ \E b \in 1..Len(branches) : \E i \in 1..Len(branches[b].steps) :
                   branches[b].steps[i].nodeId = edges[e].source

\* C3 (as claimed): a flow with at least one type node compiles to a
\* non-empty list of branches.
C3_NonEmpty == (Returned /\ input_nodes # <<>>) => branches # <<>>


\* ------------------------------------------------------------ SpecOrch
\* Python values: a list of items, a dict of <<key, value>> pairs, a bare
\* string (items = <<the string>>) or None.
List(items) == [kind |-> "list", items |-> items, dict |-> <<>>]

Dict(pairs) == [kind |-> "dict", items |-> <<>>, dict |-> pairs]

Atom(a) == [kind |-> "str", items |-> <<a>>, dict |-> <<>>]

None == [kind |-> "none", items |-> <<>>, dict |-> <<>>]

\* a list of Pydantic objects (items = what each object dumps to)
Models(items) == [kind |-> "models", items |-> items, dict |-> <<>>]

\* `not v`: None, an empty list and an empty dict are false
Falsy(v) == v.kind = "none" \/ (v.kind \in {"list", "models"} /\ v.items = <<>>)
                \/ (v.kind = "dict" /\ v.dict = <<>>)

\* isinstance(outputs, (dict, list))
IsDictOrList(v) == v.kind \in {"dict", "list", "models"}

RECURSIVE FlattenPairs(_)
FlattenPairs(pairs) ==
    IF pairs = <<>> THEN <<>>
    ELSE <<pairs[1][1], ": ">> \o pairs[1][2].items \o FlattenPairs(Tail(pairs))

\* str(v), as the sequence of its parts
Str(v) ==
    CASE v.kind = "list" -> <<"[">> \o v.items \o <<"]">>
      [] v.kind = "models" -> <<"[<">> \o v.items \o <<">]">>
      [] v.kind = "dict" -> <<"{">> \o FlattenPairs(v.dict) \o <<"}">>
      [] v.kind = "str" -> v.items
      [] OTHER -> <<"None">>

\* cache_key = f"{node_id}:{str(enricher_inputs)}"
CacheKey(node_id, inputs) == <<node_id, ":">> \o Str(inputs)

\* d[k] = v on a dict held as a function
Put(d, k, v) == [x \in DOMAIN d \cup {k} |-> IF x = k THEN v ELSE d[x]]

\* `key in outputs`, outputs[key] on a dict value
HasKey(v, key) == v.kind = "dict" /\ \E i \in 1..Len(v.dict) : v.dict[i][1] = key

GetKey(v, key) == v.dict[CHOOSE i \in 1..Len(v.dict) : v.dict[i][1] = key][2]

\* a cache that forgets what it is given
CacheStoreNothing(cache, key, outputs) == cache

\* enricher_results_cache[cache_key] = outputs
CacheStore(cache, key, outputs) == Put(cache, key, outputs)

\* flowsint_core.utils.to_json_serializable: Pydantic objects become what
\* they dump to, the JSON values (lists, dicts, strings, None) stay
to_json_serializable(v) ==
    IF v.kind = "models" THEN List(v.items) ELSE v

RECURSIVE update_results_mapping(_, _, _)
\* orchestrator.py:301-312
update_results_mapping(outputs, step_outputs, mapping) ==
    IF step_outputs = <<>> THEN mapping
    ELSE LET output_key == step_outputs[1][1]
             output_ref == step_outputs[1][2]
         IN  update_results_mapping(outputs, Tail(step_outputs),
                 IF HasKey(outputs, output_key)
                 THEN Put(mapping, output_ref, GetKey(outputs, output_key))
                 ELSE mapping)

\* orchestrator.py:252-259
resolve_reference(ref_value, mapping) ==
    IF ref_value \in DOMAIN mapping THEN mapping[ref_value] ELSE None

RECURSIVE ResolveInputs(_, _)
\* orchestrator.py:268-275, the loop over step.inputs (every declared input
\* of the steps drawn here is a string)
ResolveInputs(step_inputs, mapping) ==
    IF step_inputs = <<>> THEN <<>>
    ELSE LET resolved == resolve_reference(step_inputs[1][2], mapping)
             rest == ResolveInputs(Tail(step_inputs), mapping)
         IN  IF resolved # None THEN <<<<step_inputs[1][1], resolved>>>> \o rest ELSE rest

\* Enricher.key() of the enrichers drawn here
PrimaryKey == "values"

\* orchestrator.py:261-299: the value for the last declared input key (a
\* KeyError, here None, when that key did not resolve), or the seed values
\* under the primary key when nothing resolved
prepare_enricher_inputs(step, mapping, initial_values) ==
    LET inputs == ResolveInputs(step.inputs, mapping)
        input_key == step.inputs[Len(step.inputs)][1]
    IN  IF inputs = <<>> THEN Dict(<<<<PrimaryKey, initial_values>>>>)
        ELSE IF HasKey(Dict(inputs), input_key) THEN GetKey(Dict(inputs), input_key)
        ELSE None

\* orchestrator.py:69-75
TotalSteps(bs) ==
    LET RECURSIVE Count(_)
        Count(k) == IF k = 0 THEN 0
                    ELSE Count(k - 1)
                         + Len(SelectSeq(bs[k].steps, LAMBDA st : st.type # "type"))
    IN  Count(Len(bs))

\* orchestrator.py:35-92, the log file as _create_execution_log writes it
InitialLog(bs) ==
    [status |-> "initialized",
     entries |-> <<>>,
     summary |-> [total_steps |-> TotalSteps(bs), completed_steps |-> 0, failed_steps |-> 0],
     final_results |-> <<>>]

\* an update that does not reach the file
LogStepLost(log, entry) == log

\* orchestrator.py:94-137 with a step entry
LogStep(log, entry) ==
    [log EXCEPT !.entries = Append(@, entry),
                !.summary.completed_steps = IF entry.status = "completed" THEN @ + 1 ELSE @,
                !.summary.failed_steps = IF entry.status = "error" THEN @ + 1 ELSE @]

\* the branches walked from the last to the first
CurrentBranchReversed == enricher_branches[Len(enricher_branches) - bi]

CurrentBranch == enricher_branches[bi + 1]

CurrentStep == CurrentBranch.steps[si + 1]

\* orchestrator.py:389-408
NewStepResult(node_id) == [nodeId |-> node_id, status |-> "error", outputs |-> None, error |-> <<>>]

NewLogEntry(branch_id, node_id, inputs) ==
    [step_id |-> <<branch_id, "_", node_id>>, branch_id |-> branch_id, node_id |-> node_id,
     inputs |-> to_json_serializable(inputs), outputs |-> None, status |-> "running",
     error |-> <<>>, cache_hit |-> "absent"]

NoInputsError == <<"No inputs available">>

\* an except clause that moves on to the next step of the branch
PositionAfterExceptionContinue(s) == [opc |-> "step", si |-> s + 1]

\* where _async_scan stands after an except clause: `return results`
PositionAfterException(s) == [opc |-> "returned", si |-> s]

UnchangedOutsideOrch == UNCHANGED <<compileVars, taskVars, graphVars, libVars>>

\* what a step of a scan in progress leaves alone
UnchangedCompile ==
    UNCHANGED <<compileVars, taskVars, graphVars, libVars, scan_calls, behaviour,
                previous_results>>

\* the first lines of _async_scan with the cache of the call before
BeginScanKeepsCache ==
    /\ execution_log' = [execution_log EXCEPT !.status = "running"]
    /\ results' = [initial_values |-> values, branches |-> <<>>, results |-> <<>>,
                   reference_mapping |-> <<>>, has_reference_mapping |-> FALSE]
    /\ results_mapping' = <<>>
    /\ bi' = 0
    /\ opc' = "branch"
    /\ scan_calls' = scan_calls + 1
    /\ previous_results' = IF opc = "returned" THEN results ELSE previous_results
    /\ UNCHANGED <<enricher_branches, values, si, enricher_inputs, branch_results,
                   step_result, executions, behaviour, enricher_results_cache>>
    /\ UnchangedOutsideOrch

\* orchestrator.py:346-362: the first lines of _async_scan
BeginScan ==
    /\ execution_log' = [execution_log EXCEPT !.status = "running"]
    /\ results' = [initial_values |-> values, branches |-> <<>>, results |-> <<>>,
                   reference_mapping |-> <<>>, has_reference_mapping |-> FALSE]
    /\ results_mapping' = <<>>
    /\ enricher_results_cache' = <<>>
    /\ bi' = 0
    /\ opc' = "branch"
    /\ scan_calls' = scan_calls + 1
    /\ previous_results' = IF opc = "returned" THEN results ELSE previous_results
    /\ UNCHANGED <<enricher_branches, values, si, enricher_inputs, branch_results,
                   step_result, executions, behaviour>>
    /\ UnchangedOutsideOrch

\* orchestrator.py:346-362
ScanStart ==
    /\ opc = "constructed"
    /\ BeginScan

\* calls of scan on one orchestrator that the model follows
MaxScans == 2

\* orchestrator.py:335-362: scan is called again on an orchestrator whose
\* earlier scan has returned
ScanAgain ==
    /\ opc = "returned"
    /\ scan_calls < MaxScans
    /\ BeginScan

\* orchestrator.py:365-371
BranchStart ==
    /\ opc = "branch"
    /\ bi < Len(enricher_branches)
    /\ branch_results' = <<>>
    /\ enricher_inputs' = values
    /\ si' = 0
    /\ opc' = "step"
    /\ UNCHANGED <<enricher_branches, values, bi, step_result, results, results_mapping,
                   enricher_results_cache, execution_log, executions>>
    /\ UnchangedCompile

\* orchestrator.py:372-374
StepType ==
    /\ opc = "step"
    /\ si < Len(CurrentBranch.steps)
    /\ CurrentStep.type = "type"
    /\ si' = si + 1
    /\ UNCHANGED <<enricher_branches, values, opc, bi, enricher_inputs, branch_results,
                   step_result, results, results_mapping, enricher_results_cache,
                   execution_log, executions>>
    /\ UnchangedCompile

\* orchestrator.py:376-423: a step whose inputs are empty
StepNoInputs ==
    /\ opc = "step"
    /\ si < Len(CurrentBranch.steps)
    /\ CurrentStep.type # "type"
    /\ Falsy(enricher_inputs)
    /\ LET sr == [NewStepResult(CurrentStep.nodeId) EXCEPT !.error = NoInputsError]
           le == [NewLogEntry(CurrentBranch.id, CurrentStep.nodeId, enricher_inputs)
                    EXCEPT !.status = "error", !.error = NoInputsError]
       IN  /\ step_result' = sr
           /\ execution_log' = LogStep(execution_log, le)
           /\ branch_results' = Append(branch_results, sr)
    /\ si' = si + 1
    /\ UNCHANGED <<enricher_branches, values, opc, bi, enricher_inputs, results,
                   results_mapping, enricher_results_cache, executions>>
    /\ UnchangedCompile


\* orchestrator.py:441-456 and 484-486: the step succeeded with `outputs`
StepCompleted(outputs, cache_hit) ==
    LET sr == [NewStepResult(CurrentStep.nodeId)
                 EXCEPT !.outputs = to_json_serializable(outputs), !.status = "completed"]
        le == [NewLogEntry(CurrentBranch.id, CurrentStep.nodeId, enricher_inputs)
                 EXCEPT !.cache_hit = cache_hit, !.outputs = to_json_serializable(outputs),
                        !.status = "completed"]
    IN  /\ step_result' = sr
        /\ results_mapping' = update_results_mapping(outputs, CurrentStep.outputs, results_mapping)
        /\ results' = [results EXCEPT !.results = Put(@, CurrentStep.nodeId, outputs)]
        /\ enricher_inputs' = outputs
        /\ execution_log' = LogStep(execution_log, le)
        /\ branch_results' = Append(branch_results, sr)
        /\ si' = si + 1
        /\ opc' = "step"

\* {"error": error_msg}
ErrorValue(error_msg) ==
    Dict(<<<<"error", [kind |-> "str", items |-> error_msg, dict |-> <<>>]>>>>)

\* orchestrator.py:458-482: an except clause, with its message
StepRaised(prefix, message) ==
    LET error_msg == <<prefix, message>>
        le == [NewLogEntry(CurrentBranch.id, CurrentStep.nodeId, enricher_inputs)
                 EXCEPT !.cache_hit = "false", !.status = "error", !.error = error_msg]
    IN  /\ step_result' = [NewStepResult(CurrentStep.nodeId) EXCEPT !.error = error_msg]
        /\ results' = [results EXCEPT !.results =
                          Put(@, CurrentStep.nodeId, ErrorValue(error_msg))]
        /\ execution_log' = LogStep(execution_log, le)
        /\ opc' = PositionAfterException(si).opc
        /\ si' = PositionAfterException(si).si
        /\ UNCHANGED <<enricher_inputs, branch_results, results_mapping>>

\* orchestrator.py:425-429, then 441-456 and 484-486: a cache hit
StepCached ==
    /\ opc = "step"
    /\ si < Len(CurrentBranch.steps)
    /\ CurrentStep.type # "type"
    /\ ~Falsy(enricher_inputs)
    /\ CacheKey(CurrentStep.nodeId, enricher_inputs) \in DOMAIN enricher_results_cache
    /\ StepCompleted(enricher_results_cache[CacheKey(CurrentStep.nodeId, enricher_inputs)], "true")
    /\ UNCHANGED <<enricher_branches, values, bi, enricher_results_cache, executions>>
    /\ UnchangedCompile

\* orchestrator.py:425-432: a cache miss, up to `await enricher.execute(...)`
StepInvoke ==
    /\ opc = "step"
    /\ si < Len(CurrentBranch.steps)
    /\ CurrentStep.type # "type"
    /\ ~Falsy(enricher_inputs)
    /\ CacheKey(CurrentStep.nodeId, enricher_inputs) \notin DOMAIN enricher_results_cache
    /\ executions' = Append(executions, <<CurrentStep.nodeId, enricher_inputs>>)
    /\ opc' = "await"
    /\ UNCHANGED <<enricher_branches, values, bi, si, enricher_inputs, branch_results,
                   step_result, results, results_mapping, enricher_results_cache,
                   execution_log>>
    /\ UnchangedCompile

\* what enricher.execute returns in the runs drawn
Returns == {List(<<>>), List(<<"x">>), Models(<<"y">>), Dict(<<<<"out", Atom("a")>>>>), Atom("oops")}

\* orchestrator.py:432-456 and 484-486: execute returned a dict or a list
ExecuteReturns ==
    /\ opc = "await"
    /\ \E outputs \in Returns :
          /\ IsDictOrList(outputs)
          /\ enricher_results_cache' =
                CacheStore(enricher_results_cache,
                           CacheKey(CurrentStep.nodeId, enricher_inputs), outputs)
          /\ StepCompleted(outputs, "false")
    /\ UNCHANGED <<enricher_branches, values, bi, executions>>
    /\ UnchangedCompile

\* orchestrator.py:433-436 and 471-482: execute returned something else
ExecuteReturnsUnsupported ==
    /\ opc = "await"
    /\ \E outputs \in Returns :
          /\ ~IsDictOrList(outputs)
          /\ StepRaised("Error during scan: ", "returned unsupported output format")
    /\ UNCHANGED <<enricher_branches, values, bi, enricher_results_cache, executions>>
    /\ UnchangedCompile

\* orchestrator.py:458-469: execute raised pydantic's ValidationError
ExecuteRaisesValidation ==
    /\ opc = "await"
    /\ StepRaised("Validation error: ", "invalid input")
    /\ UNCHANGED <<enricher_branches, values, bi, enricher_results_cache, executions>>
    /\ UnchangedCompile

\* orchestrator.py:471-482: execute raised any other exception
ExecuteRaises ==
    /\ opc = "await"
    /\ StepRaised("Error during scan: ", "connection failed")
    /\ UNCHANGED <<enricher_branches, values, bi, enricher_results_cache, executions>>
    /\ UnchangedCompile

\* orchestrator.py:488, the end of the loop over branch.steps
BranchEnd ==
    /\ opc = "step"
    /\ si = Len(CurrentBranch.steps)
    /\ results' = [results EXCEPT !.branches =
                      Append(@, [id |-> CurrentBranch.id, steps |-> branch_results])]
    /\ bi' = bi + 1
    /\ opc' = "branch"
    /\ UNCHANGED <<enricher_branches, values, si, enricher_inputs, branch_results,
                   step_result, results_mapping, enricher_results_cache, execution_log,
                   executions>>
    /\ UnchangedCompile

\* orchestrator.py:490-500 and 139-171
ScanFinish ==
    /\ opc = "branch"
    /\ bi = Len(enricher_branches)
    /\ results' = [results EXCEPT !.reference_mapping = results_mapping,
                                  !.has_reference_mapping = TRUE]
    /\ execution_log' = [execution_log EXCEPT !.status = "completed",
                                              !.final_results = results']
    /\ opc' = "returned"
    /\ UNCHANGED <<enricher_branches, values, bi, si, enricher_inputs, branch_results,
                   step_result, results_mapping, enricher_results_cache, executions>>
    /\ UnchangedCompile

\* a compiled step, with the input and output references it declares
FlowStep(node_id, type, inputs, outputs) ==
    [nodeId |-> node_id, type |-> type, inputs |-> inputs, outputs |-> outputs]

TypeStep == FlowStep("T", "type", <<>>, <<<<"domain", "seed">>>>)

\* the input declared for an enricher step: none, or a reference to the
\* output of enricher A
InputDecls == {<<>>, <<<<"input", "ref_A">>>>}

\* the reference under which an enricher step publishes its field "out"
OutRef(node_id) ==
    CASE node_id = "A" -> "ref_A"
      [] node_id = "B" -> "ref_B"
      [] OTHER -> "ref_C"

EnricherStep(node_id, inputs) ==
    FlowStep(node_id, "enricher", inputs, <<<<"out", OutRef(node_id)>>>>)

FlowBranch(id, steps) == [id |-> id, steps |-> steps]

\* the compiled branch lists of the runs drawn, shortest branch first: a
\* chain, a fork after A, two branches that share the prefix T, A, B, a fork
\* at the seed slot, and a single step
BranchLists(inB, inC) ==
    LET a == EnricherStep("A", <<>>)
        b == EnricherStep("B", inB)
        c == EnricherStep("C", inC)
    IN  {<<FlowBranch("branch-0", <<TypeStep, a, b, c>>)>>,
         <<FlowBranch("branch-0", <<TypeStep, a, b>>),
           FlowBranch("branch-0-1", <<TypeStep, a, c>>)>>,
         <<FlowBranch("branch-0", <<TypeStep, a, b>>),
           FlowBranch("branch-0-1", <<TypeStep, a, b, c>>)>>,
         <<FlowBranch("branch-0", <<TypeStep, a>>),
           FlowBranch("branch-0-1", <<TypeStep, b>>)>>,
         <<FlowBranch("branch-0", <<TypeStep, a>>)>>}

\* no compilation is in progress
IdleCompile ==
    /\ call = "none"
    /\ nodes = <<>>
    /\ edges = <<>>
    /\ cpc = "done"
    /\ index = 0
    /\ branches = <<>>
    /\ branch_counter = 0
    /\ stack = <<>>
    /\ lists = <<>>
    /\ pl_stack = <<>>
    /\ pl_result = 0
    /\ enricher_outputs = <<>>
    /\ recompiled = FALSE
    /\ previous_branches = <<>>

\* orchestrator.py:20-33: the orchestrator as constructed (its branch list
\* holds at least one enricher step, or _load_enrichers would have raised),
\* with the seed values that scan will be given (the launch routes answer
\* 404 when no seed node is found, so the list is not empty)
OrchConstructed ==
    /\ \E inB, inC \in InputDecls : enricher_branches \in BranchLists(inB, inC)
    /\ values \in {List(<<"seed">>), List(<<"seed", "seed2">>)}
    /\ opc = "constructed"
    /\ bi = 0
    /\ si = 0
    /\ enricher_inputs = None
    /\ branch_results = <<>>
    /\ step_result = NewStepResult("T")
    /\ results = [initial_values |-> None, branches |-> <<>>, results |-> <<>>,
                  reference_mapping |-> <<>>, has_reference_mapping |-> FALSE]
    /\ results_mapping = <<>>
    /\ enricher_results_cache = <<>>
    /\ execution_log = InitialLog(enricher_branches)
    /\ executions = <<>>
    /\ scan_calls = 0
    /\ previous_results = <<>>
    /\ IdleCompile
    /\ IdleTask
    /\ IdleGraph
    /\ IdleLib

\* the enrichers are whatever the registry loaded: execute may do anything
InitOrch ==
    /\ OrchConstructed
    /\ behaviour = <<>>

NextOrch ==
    \/ ScanStart
    \/ BranchStart
    \/ StepType
    \/ StepNoInputs
    \/ StepCached
    \/ StepInvoke
    \/ ExecuteReturns
    \/ ExecuteReturnsUnsupported
    \/ ExecuteRaisesValidation
    \/ ExecuteRaises
    \/ BranchEnd
    \/ ScanFinish

SpecOrch == InitOrch /\ [][NextOrch]_vars

\* the orchestrator with further calls of scan
NextOrchAgain == NextOrch \/ ScanAgain

InitOrchAgain ==
    /\ InitOrch
    /\ values = List(<<"seed">>)

SpecOrchAgain == InitOrchAgain /\ [][NextOrchAgain]_vars

\* what execute of an enricher may do: return one of Returns or raise
Raises(exception) == [kind |-> "raise", items |-> <<exception>>, dict |-> <<>>]

Outcomes == Returns \cup {Raises("ValidationError"), Raises("Exception")}

\* the enricher the scan stands at does what `behaviour` fixes for it
ExecuteAsFixed ==
    LET outcome == behaviour[CurrentStep.nodeId]
    IN  /\ opc = "await"
        /\ \/ outcome \in Returns /\ IsDictOrList(outcome)
              /\ ExecuteReturns /\ enricher_inputs' = outcome
           \/ outcome \in Returns /\ ~IsDictOrList(outcome) /\ ExecuteReturnsUnsupported
           \/ outcome = Raises("ValidationError") /\ ExecuteRaisesValidation
           \/ outcome = Raises("Exception") /\ ExecuteRaises

\* two calls of scan on an orchestrator whose enrichers are deterministic:
\* in the branch lists drawn an enricher sees one input per run, so what it
\* does is fixed per enricher
InitOrchReplay ==
    /\ OrchConstructed
    /\ values = List(<<"seed">>)
    /\ behaviour \in [{"A", "B", "C"} -> Outcomes]

NextOrchReplay ==
    \/ ScanStart
    \/ ScanAgain
    \/ BranchStart
    \/ StepType
    \/ StepNoInputs
    \/ StepCached
    \/ StepInvoke
    \/ ExecuteAsFixed
    \/ BranchEnd
    \/ ScanFinish

SpecOrchReplay == InitOrchReplay /\ [][NextOrchReplay]_vars


LogEntries == execution_log.entries

\* the entry records an exception of execute (or of the output check)
IsRaised(entry) == entry.status = "error" /\ entry.error # NoInputsError

\* steps or branches of the run that have not been reached
WorkLeft == bi + 1 < Len(enricher_branches) \/ si + 1 < Len(CurrentBranch.steps)

\* C4 (as claimed): a log entry with status error, whatever the reason, is
\* the last thing the run does: it is the last entry and the run has
\* returned.
C4_ErrorEndsRun ==
    opc # "constructed" =>
        \A k \in 1..Len(LogEntries) :
            LogEntries[k].status = "error" => (k = Len(LogEntries) /\ opc = "returned")

\* C4 (amended): when a step ends in error because enricher.execute raised
\* (or returned an unsupported output), the error is recorded on the step
\* and under results[nodeId], its log entry is appended and is the last one,
\* the raising call is the last call of execute, and the run has returned.
C4_RaiseEndsRun ==
    opc # "constructed" =>
        \A k \in 1..Len(LogEntries) :
            IsRaised(LogEntries[k]) =>
                /\ k = Len(LogEntries)
                /\ opc = "returned"
                /\ step_result.nodeId = LogEntries[k].node_id
                /\ step_result.status = "error"
                /\ step_result.error = LogEntries[k].error
                /\ results.results[LogEntries[k].node_id] = ErrorValue(LogEntries[k].error)
                /\ Last(executions)[1] = LogEntries[k].node_id
                /\ ~results.has_reference_mapping
                /\ execution_log.status = "running"

\* C4 witness: the run has returned on a raised error with steps or branches
\* still ahead.
C4_Witness ==
    /\ opc = "returned"
    /\ LogEntries # <<>>
    /\ IsRaised(Last(LogEntries))
    /\ WorkLeft

\* C5 (as claimed): the inputs a step is run with are its declared input
\* references resolved against results_mapping, whenever one of them
\* resolves.
C5_InputsResolved ==
    (opc = "await" /\ ResolveInputs(CurrentStep.inputs, results_mapping) # <<>>) =>
        enricher_inputs = prepare_enricher_inputs(CurrentStep, results_mapping, values)

SamePair(e1, e2) == e1.node_id = e2.node_id /\ Str(e1.inputs) = Str(e2.inputs)

ExecutedOncePerPair ==
    \A i, j \in 1..Len(executions) :
        (executions[i][1] = executions[j][1]
            /\ Str(executions[i][2]) = Str(executions[j][2])) => i = j

\* C6 (as claimed): execute runs at most once per pair (nodeId, str(inputs)),
\* and every later step with the pair of an earlier one is logged with
\* cache_hit = true.
C6_OncePerPair ==
    opc # "constructed" =>
        /\ ExecutedOncePerPair
        /\ \A j, k \in 1..Len(LogEntries) :
              (j < k /\ SamePair(LogEntries[j], LogEntries[k])) =>
                  LogEntries[k].cache_hit = "true"

BranchOf(entry) ==
    CHOOSE q \in 1..Len(enricher_branches) : enricher_branches[q].id = entry.branch_id

PositionOf(entry) ==
    CHOOSE i \in 1..Len(enricher_branches[BranchOf(entry)].steps) :
        enricher_branches[BranchOf(entry)].steps[i].nodeId = entry.node_id

\* branches p and q name the same nodes in their first i steps
SharePrefix(p, q, i) ==
    /\ i <= Len(enricher_branches[p].steps)
    /\ \A m \in 1..i :
          enricher_branches[p].steps[m].nodeId = enricher_branches[q].steps[m].nodeId

\* C6 (amended): execute runs at most once per pair (nodeId, str(inputs)); a
\* later step with the pair of an earlier one, its inputs not empty, is a
\* cache hit with the earlier step's outputs; so a step with non-empty
\* inputs in a prefix that its branch shares with an earlier branch is a
\* cache hit.
C6_OncePerPairNonEmpty ==
    opc # "constructed" =>
        /\ ExecutedOncePerPair
        /\ \A j, k \in 1..Len(LogEntries) :
              (j < k /\ SamePair(LogEntries[j], LogEntries[k])
                     /\ ~Falsy(LogEntries[k].inputs)) =>
                  /\ LogEntries[k].cache_hit = "true"
                  /\ LogEntries[k].status = "completed"
                  /\ LogEntries[k].outputs = LogEntries[j].outputs
        /\ \A k \in 1..Len(LogEntries) :
              (/\ ~Falsy(LogEntries[k].inputs)
               /\ \E p \in 1..BranchOf(LogEntries[k]) - 1 :
                     SharePrefix(p, BranchOf(LogEntries[k]), PositionOf(LogEntries[k])))
              => LogEntries[k].cache_hit = "true"

\* C6 witness: the second branch repeats the two enricher steps of the first
\* and both are logged as cache hits.
C6_Witness ==
    /\ opc = "returned"
    /\ \E j, k \in 1..Len(LogEntries) :
          /\ j < k
          /\ LogEntries[j].branch_id = "branch-0-1"
          /\ LogEntries[k].branch_id = "branch-0-1"
          /\ LogEntries[j].node_id = "A"
          /\ LogEntries[k].node_id = "B"
          /\ LogEntries[j].cache_hit = "true"
          /\ LogEntries[k].cache_hit = "true"


\* ------------------------------------------------------------ SpecTask
\* deliveries of one job that the model follows
MaxAttempts == 2

\* the names ENRICHER_REGISTRY.enricher_exists answers True for
RegisteredEnrichers == {"domain_to_ip", "domain_to_asn"}

\* to_asn.py:44-54, get_params_schema: the required vaultSecret parameters
RequiredSecrets(enricher_name) ==
    IF enricher_name = "domain_to_asn" THEN {"PDCP_API_KEY"} ELSE {}

\* the launch requests: the task id the queue will give the job, the
\* enricher name of the URL, the sketch, whether the graph holds nodes for
\* the ids sent, and whether the user's vault and the worker's environment
\* hold PDCP_API_KEY
Requests ==
    [id : {"task-1"}, enricher_name : {"domain_to_ip", "domain_to_asn", "nope"},
     sketch_id : {"sketch-1", "None"}, nodes_found : BOOLEAN,
     in_vault : BOOLEAN, in_env : BOOLEAN]

\* uuid.UUID(sketch_id) if sketch_id else None
SketchOf(req) == req.sketch_id

\* Scan(id=scan_id, status=EventLevel.PENDING, sketch_id=...)
PendingRow(req) == [status |-> "pending", sketch_id |-> SketchOf(req), results |-> None]

\* scan.status = EventLevel.COMPLETED; scan.results = to_json_serializable(results)
CompletedRow(row, outputs) ==
    [row EXCEPT !.status = "completed", !.results = to_json_serializable(outputs)]

\* error_logs = f"An error occurred: {str(ex)}"
\* the stored text without the exception's own message
ErrorLogsGeneric(ex) == <<"An error occurred: ", <<"Exception">>>>

ErrorLogs(ex) == <<"An error occurred: ", ex>>

\* a handler that stores the message and leaves the status as it is
FailedRowKeepsStatus(row, ex) ==
    [row EXCEPT !.results = Dict(<<<<"error", Atom(ErrorLogs(ex))>>>>)]

\* scan.status = EventLevel.FAILED; scan.results = {"error": error_logs}
FailedRow(row, ex) ==
    [row EXCEPT !.status = "failed",
                !.results = Dict(<<<<"error", Atom(ErrorLogs(ex))>>>>)]

\* session.query(Scan).filter(Scan.id == ...).first() finds a row
RowExists == request.id \in DOMAIN scans

UnchangedOutsideTask == UNCHANGED <<compileVars, orchVars, graphVars, libVars>>

\* enricher.py:84-96: the except clause, for the exception `ex`
HandleException(ex) ==
    /\ scans' = IF RowExists
                THEN Put(scans, request.id, FailedRow(scans[request.id], ex))
                ELSE scans
    /\ writes' = IF RowExists THEN Append(writes, "failed") ELSE writes
    /\ task_result' = [kind |-> "raise", outputs |-> None, state |-> "FAILURE", value |-> ex]
    /\ tpc' = "raised"

\* enrichers.py:69-101: POST /enrichers/{enricher_name}/launch
LaunchEnricher ==
    /\ tpc = "launch"
    /\ IF request.nodes_found
       THEN /\ response' = "200"
            /\ tpc' = "queued"
            /\ attempt' = 1
       ELSE /\ response' = "404"
            /\ tpc' = "rejected"
            /\ UNCHANGED attempt
    /\ UNCHANGED <<scans, request, task_result, writes, executed, cancelled,
                   begun_after, scan_invoked>>
    /\ UnchangedOutsideTask

\* enricher.py:39-51: the worker picks the job up, adds the Scan row and
\* commits; the commit raises when a row with this id is already there
TaskInsert ==
    /\ tpc = "queued"
    /\ IF RowExists
       THEN /\ HandleException("duplicate key value violates unique constraint")
            /\ UNCHANGED <<executed, begun_after>>
       ELSE /\ scans' = Put(scans, request.id, PendingRow(request))
            /\ writes' = <<"pending">>
            /\ tpc' = "created"
            /\ UNCHANGED <<task_result, executed, begun_after>>
    /\ UNCHANGED <<request, response, scan_invoked, attempt, cancelled>>
    /\ UnchangedOutsideTask

\* enricher.py:51, 84-96: the first commit fails for a reason of the
\* database's (connection lost); nothing was stored
TaskInsertFails ==
    /\ tpc = "queued"
    /\ ~RowExists
    /\ HandleException("connection lost")
    /\ UNCHANGED <<request, response, scan_invoked, attempt, executed, cancelled, begun_after>>
    /\ UnchangedOutsideTask

\* enricher.py:53-76: vault (a failure there is only logged), registry
\* lookup, and the call of enricher.execute
TaskLookup ==
    /\ tpc = "created"
    /\ IF request.enricher_name \in RegisteredEnrichers
       THEN /\ tpc' = "executing"
            /\ executed' = TRUE
            /\ begun_after' = cancelled
            /\ UNCHANGED <<scans, writes, task_result>>
       ELSE /\ HandleException(<<"Enricher '", request.enricher_name,
                                 "' not found in registry">>)
            /\ UNCHANGED <<executed, begun_after>>
    /\ UNCHANGED <<request, response, scan_invoked, attempt, cancelled>>
    /\ UnchangedOutsideTask

\* the secrets of the schema that neither the vault nor the environment holds
MissingSecrets ==
    {name \in RequiredSecrets(request.enricher_name) :
        ~request.in_vault /\ ~request.in_env}

\* Enricher.execute, first part: async_init resolves the required
\* vaultSecret parameters and raises when one is missing; then preprocess
\* and the call of scan
EnricherInit ==
    /\ tpc = "executing"
    /\ IF MissingSecrets = {}
       THEN /\ tpc' = "scanning"
            /\ scan_invoked' = TRUE
            /\ UNCHANGED <<scans, writes, task_result>>
       ELSE /\ HandleException(<<"Required vault secret '",
                                 CHOOSE name \in MissingSecrets : TRUE, "' is missing">>)
            /\ UNCHANGED scan_invoked
    /\ UNCHANGED <<request, response, attempt, executed, cancelled, begun_after>>
    /\ UnchangedOutsideTask

\* what enricher.execute may hand back
TaskReturns == {List(<<>>), List(<<"1.2.3.4">>), Models(<<"ip">>), Models(<<"ip", "ip2">>)}

\* enricher.py:76-82: execute returns
TaskExecuteReturns ==
    /\ tpc = "scanning"
    /\ \E outputs \in TaskReturns :
          /\ scans' = Put(scans, request.id, CompletedRow(scans[request.id], outputs))
          /\ task_result' = [kind |-> "return", outputs |-> outputs, state |-> "SUCCESS",
                             value |-> to_json_serializable(outputs)]
    /\ writes' = Append(writes, "completed")
    /\ tpc' = "returned"
    /\ UNCHANGED <<request, response, scan_invoked, attempt, executed, cancelled, begun_after>>
    /\ UnchangedOutsideTask

\* enricher.py:76, 84-96: execute raises
TaskExecuteRaises ==
    /\ tpc = "scanning"
    /\ \E ex \in {"timeout", "PDCP_API_KEY is required"} : HandleException(ex)
    /\ UNCHANGED <<request, response, scan_invoked, attempt, executed, cancelled, begun_after>>
    /\ UnchangedOutsideTask

\* the task runtime cancels the run: it marks the job's row failed
Cancel ==
    /\ tpc \in {"created", "executing", "scanning"}
    /\ ~cancelled
    /\ scans' = Put(scans, request.id, [scans[request.id] EXCEPT !.status = "failed"])
    /\ cancelled' = TRUE
    /\ UNCHANGED <<request, response, scan_invoked, tpc, attempt, task_result, writes,
                   executed, begun_after>>
    /\ UnchangedOutsideTask

\* the queue delivers a failed job again, under the same task id
Redeliver ==
    /\ tpc = "raised"
    /\ attempt < MaxAttempts
    /\ attempt' = attempt + 1
    /\ tpc' = "queued"
    /\ task_result' = [kind |-> "none", outputs |-> None, state |-> "PENDING", value |-> ""]
    /\ writes' = <<>>
    /\ executed' = FALSE
    /\ cancelled' = FALSE
    /\ begun_after' = FALSE
    /\ scan_invoked' = FALSE
    /\ UNCHANGED <<scans, request, response>>
    /\ UnchangedOutsideTask

\* a launch request has arrived; the Scan table holds no row for it
InitTask ==
    /\ scans = <<>>
    /\ request \in Requests
    /\ tpc = "launch"
    /\ attempt = 0
    /\ response = "none"
    /\ scan_invoked = FALSE
    /\ task_result = [kind |-> "none", outputs |-> None, state |-> "PENDING", value |-> ""]
    /\ writes = <<>>
    /\ executed = FALSE
    /\ cancelled = FALSE
    /\ begun_after = FALSE
    /\ IdleCompile
    /\ IdleOrch
    /\ IdleGraph
    /\ IdleLib

NextTask ==
    \/ LaunchEnricher
    \/ TaskInsert
    \/ TaskInsertFails
    \/ TaskLookup
    \/ EnricherInit
    \/ TaskExecuteReturns
    \/ TaskExecuteRaises
    \/ Cancel
    \/ Redeliver

SpecTask == InitTask /\ [][NextTask]_vars

\* the job's row in the Scan table
ScanRow == scans[request.id]

\* C7: a run_enricher job persists its Scan row with status pending before
\* it calls execute; when execute has returned, the row has status completed
\* and its results are the serialized outputs, which the task returns; when
\* the job raised and its row exists, the row has status failed and results
\* {error: the message}, and the exception went on to the queue.
C7_RowFollowsJob ==
    /\ executed => (RowExists /\ writes # <<>> /\ writes[1] = "pending")
    /\ tpc = "returned" =>
          /\ ScanRow.status = "completed"
          /\ ScanRow.results = to_json_serializable(task_result.outputs)
          /\ task_result.kind = "return"
          /\ task_result.value = ScanRow.results
          /\ writes = <<"pending", "completed">>
    /\ (tpc = "raised" /\ RowExists) =>
          /\ ScanRow.status = "failed"
          /\ ScanRow.results = Dict(<<<<"error", Atom(ErrorLogs(task_result.value))>>>>)
          /\ task_result.kind = "raise"
          /\ Last(writes) = "failed"

\* C7 witness: execute raised in a job whose row was pending, and the row
\* now is failed with the error.
C7_Witness ==
    /\ tpc = "raised"
    /\ executed
    /\ ~cancelled
    /\ writes = <<"pending", "failed">>
    /\ ScanRow.status = "failed"
    /\ HasKey(ScanRow.results, "error")

\* C8 (as claimed): when the queue delivers a failed job again under the same
\* task id, the job runs again: unless the database is down or the enricher
\* is not registered, the delivery calls execute, and when execute returns
\* the row ends completed.
C8_RetryRunsAgain ==
    (attempt > 1 /\ tpc \in {"returned", "raised"}) =>
        /\ (request.enricher_name \in RegisteredEnrichers
              /\ task_result.value # "connection lost") => executed
        /\ tpc = "returned" => ScanRow.status = "completed"

\* C9 (as claimed): once the row was marked failed during a run, the run
\* does not go on to call execute, and the row is not completed when the
\* worker finishes.
C9_CancelHolds ==
    /\ cancelled => ~begun_after
    /\ (cancelled /\ tpc = "returned") => ScanRow.status # "completed"


\* ------------------------------------------------------------ SpecGraph
\* the graph writes of a postprocess, as calls on the database
NodeCall(type, key, fields) ==
    [op |-> "upsert_node", type |-> type, key |-> key, fields |-> fields,
     source |-> "", target |-> "", hash |-> ""]

EdgeCall(source, target, type, hash, fields) ==
    [op |-> "upsert_edge", type |-> type, key |-> "", fields |-> fields,
     source |-> source, target |-> target, hash |-> hash]

\* the node a call of upsert_node merges on: (type, primary key)
NodeKey(c) == <<c.type, c.key>>

\* the edge a call of upsert_edge merges on
EdgeKey(c) == <<c.source, c.target, c.type, c.hash>>

\* upsert_node(entity, sketch_id): merge on (type, primary key), set the
\* entity's scalar fields
upsert_node(gn, c) == Put(gn, NodeKey(c), c.fields)

\* an edge merge that sets the properties only when it creates the edge
upsert_edge_on_create(gn, ge, c) ==
    IF <<"cryptowallet", c.source>> \in DOMAIN gn /\ <<"cryptowallet", c.target>> \in DOMAIN gn
       /\ EdgeKey(c) \notin DOMAIN ge
    THEN Put(ge, EdgeKey(c), c.fields)
    ELSE ge

\* to_transactions.py:187-206: MATCH both wallets, MERGE the edge on its
\* hash, SET its properties
upsert_edge(gn, ge, c) ==
    IF <<"cryptowallet", c.source>> \in DOMAIN gn /\ <<"cryptowallet", c.target>> \in DOMAIN gn
    THEN Put(ge, EdgeKey(c), c.fields)
    ELSE ge

\* the transactions a scan may have found: source wallet (an object with
\* its address and a label), target wallet, hash, value
Wallets == [address : {"w1", "w2"}, label : {"a", "b"}]

Txs == {tx \in [source : Wallets, target : Wallets, hash : {"h1"}, value : {"1", "2"}] :
           tx.source.address = "w1"}

\* to_transactions.py:178-206, for one transaction: create_node(tx.source),
\* create_node(tx.target.address), which carries the address alone, and the
\* edge query
TxRun(tx) ==
    <<NodeCall("cryptowallet", tx.source.address, <<tx.source.label>>),
      NodeCall("cryptowallet", tx.target.address, <<>>),
      EdgeCall(tx.source.address, tx.target.address, "TRANSACTION", tx.hash, <<tx.value>>)>>

\* to_infos.py:44-52, for one geolocated ip: create_node(ip)
IpRun(ip) == <<NodeCall("ip", ip.address, <<ip.city>>)>>

Ips == [address : {"1.1.1.1"}, city : {"Paris", "Rome"}]

PostprocessRuns == {TxRun(tx) : tx \in Txs} \cup {IpRun(ip) : ip \in Ips}

\* the call run r makes next
NextCall(r) == runs[r][gpc[r] + 1]

UnchangedOutsideGraph == UNCHANGED <<compileVars, orchVars, taskVars, libVars>>

\* run r's next write is a create_node
UpsertNode(r) ==
    /\ gpc[r] < Len(runs[r])
    /\ NextCall(r).op = "upsert_node"
    /\ graph_nodes' = upsert_node(graph_nodes, NextCall(r))
    /\ applied' = Append(applied, NextCall(r))
    /\ gpc' = [gpc EXCEPT ![r] = @ + 1]
    /\ UNCHANGED <<graph_edges, runs>>
    /\ UnchangedOutsideGraph

\* run r's next write is the edge query
UpsertEdge(r) ==
    /\ gpc[r] < Len(runs[r])
    /\ NextCall(r).op = "upsert_edge"
    /\ graph_edges' = upsert_edge(graph_nodes, graph_edges, NextCall(r))
    /\ applied' = Append(applied, NextCall(r))
    /\ gpc' = [gpc EXCEPT ![r] = @ + 1]
    /\ UNCHANGED <<graph_nodes, runs>>
    /\ UnchangedOutsideGraph

\* two runs on workers of the queue write to one sketch with an empty graph
InitGraph ==
    /\ graph_nodes = <<>>
    /\ graph_edges = <<>>
    /\ runs \in [1..2 -> PostprocessRuns]
    /\ gpc = [r \in 1..2 |-> 0]
    /\ applied = <<>>
    /\ IdleCompile
    /\ IdleOrch
    /\ IdleTask
    /\ IdleLib

NextGraph == \E r \in 1..2 : UpsertNode(r) \/ UpsertEdge(r)

SpecGraph == InitGraph /\ [][NextGraph]_vars

\* both runs have made all their calls
GraphDone == \A r \in 1..2 : gpc[r] = Len(runs[r])

RECURSIVE ApplyAll(_, _, _)
\* the graph after `calls`, made one after the other on the graph (gn, ge)
ApplyAll(calls, gn, ge) ==
    IF calls = <<>> THEN <<gn, ge>>
    ELSE IF calls[1].op = "upsert_node"
         THEN ApplyAll(Tail(calls), upsert_node(gn, calls[1]), ge)
         ELSE ApplyAll(Tail(calls), gn, upsert_edge(gn, ge, calls[1]))

AllCalls == runs[1] \o runs[2]

KeyOf(c) == IF c.op = "upsert_node" THEN NodeKey(c) ELSE EdgeKey(c)

\* calls on one node or on one edge carry the same field values
SameValues ==
    \A i, j \in 1..Len(AllCalls) :
        (AllCalls[i].op = AllCalls[j].op /\ KeyOf(AllCalls[i]) = KeyOf(AllCalls[j]))
            => AllCalls[i].fields = AllCalls[j].fields

\* the fields of the call that was the last to target what c targets
LastFields(c) ==
    LET hits == {i \in 1..Len(applied) :
                    applied[i].op = c.op /\ KeyOf(applied[i]) = KeyOf(c)}
    IN  applied[CHOOSE i \in hits : \A j \in hits : j <= i].fields

\* C10 (as claimed): whatever the interleaving of the two runs' calls, the
\* final graph is the same, the one the calls give when the runs go one
\* after the other, also when calls target one node or edge with different
\* field values.
C10_SameFinalGraph ==
    GraphDone => <<graph_nodes, graph_edges>> = ApplyAll(AllCalls, <<>>, <<>>)

\* C10 (amended): whatever the interleaving, the final graph has the same
\* nodes and edges, one per key targeted; each holds the field values of the
\* call that targeted it last; and when the calls on one node or edge carry
\* the same values, the final graph is the same for every interleaving.
C10_SameKeysLastValues ==
    GraphDone =>
        /\ DOMAIN graph_nodes =
              {NodeKey(AllCalls[i]) : i \in {k \in 1..Len(AllCalls) : AllCalls[k].op = "upsert_node"}}
        /\ DOMAIN graph_edges =
              {EdgeKey(AllCalls[i]) : i \in {k \in 1..Len(AllCalls) : AllCalls[k].op = "upsert_edge"}}
        /\ \A i \in 1..Len(AllCalls) :
              LET c == AllCalls[i]
              IN  IF c.op = "upsert_node"
                  THEN graph_nodes[NodeKey(c)] = LastFields(c)
                  ELSE graph_edges[EdgeKey(c)] = LastFields(c)
        /\ SameValues => <<graph_nodes, graph_edges>> = ApplyAll(AllCalls, <<>>, <<>>)

\* C10 witness: both runs are done, they wrote one edge with different
\* values, and the second run's write came first.
C10_Witness ==
    /\ GraphDone
    /\ Len(runs[1]) = 3
    /\ Len(runs[2]) = 3
    /\ EdgeKey(runs[1][3]) = EdgeKey(runs[2][3])
    /\ runs[1][3].fields # runs[2][3].fields
    /\ applied[Len(applied)] = runs[1][3]
    /\ applied[1] = runs[2][1]


\* ------------------------------------------------ claims on the execution log
RECURSIVE EnricherStepsOf(_, _)
\* <<branch id, nodeId>> of the enricher steps among the first n steps of b
EnricherStepsOf(b, n) ==
    IF n = 0 THEN <<>>
    ELSE EnricherStepsOf(b, n - 1) \o
            (IF b.steps[n].type = "type" THEN <<>> ELSE <<<<b.id, b.steps[n].nodeId>>>>)

RECURSIVE StepsOfBranches(_)
StepsOfBranches(n) ==
    IF n = 0 THEN <<>>
    ELSE StepsOfBranches(n - 1) \o
            EnricherStepsOf(enricher_branches[n], Len(enricher_branches[n].steps))

\* the scan went through every branch
RanToEnd == opc = "returned" /\ bi = Len(enricher_branches)

\* the scan returned from an except clause
StoppedOnError == opc = "returned" /\ bi < Len(enricher_branches)

\* the enricher steps that have ended so far, in execution order
EndedSteps ==
    IF opc = "constructed" THEN <<>>
    ELSE StepsOfBranches(bi) \o
            (IF bi < Len(enricher_branches) /\ opc # "branch"
             THEN EnricherStepsOf(CurrentBranch, IF StoppedOnError THEN si + 1 ELSE si)
             ELSE <<>>)

\* C11: the execution log has status initialized and no entry while the
\* orchestrator is constructed and scan has not started, status running from
\* the start of the scan on, exactly one entry per step that has ended, in
\* execution order, and after a scan that went through every branch status
\* completed with final_results holding the results returned.
C11_LogLifecycle ==
    /\ opc = "constructed" => (execution_log.status = "initialized" /\ LogEntries = <<>>)
    /\ (opc # "constructed" /\ ~RanToEnd) => execution_log.status = "running"
    /\ [i \in 1..Len(LogEntries) |-> <<LogEntries[i].branch_id, LogEntries[i].node_id>>]
          = EndedSteps
    /\ RanToEnd =>
          /\ execution_log.status = "completed"
          /\ execution_log.final_results = results
          /\ results.has_reference_mapping

\* C11 witness: a scan over two branches went to the end and the log holds
\* the entries of both.
C11_Witness ==
    /\ RanToEnd
    /\ Len(enricher_branches) = 2
    /\ Len(LogEntries) >= 3
    /\ execution_log.status = "completed"

\* C12 (as claimed): once the log's status is completed or failed, no step
\* of the orchestrator, a further call of scan included, changes the status,
\* the entries or the summary counters.
C12_ClosedLogStays ==
    [][execution_log.status \in {"completed", "failed"} =>
          /\ execution_log'.status = execution_log.status
          /\ execution_log'.entries = execution_log.entries
          /\ execution_log'.summary = execution_log.summary]_vars

RECURSIVE ReturnedSteps(_)
\* <<branch id, nodeId>> of the steps under the first n branches of the
\* record returned
ReturnedSteps(n) ==
    IF n = 0 THEN <<>>
    ELSE LET b == results.branches[n]
         IN  ReturnedSteps(n - 1) \o [i \in 1..Len(b.steps) |-> <<b.id, b.steps[i].nodeId>>]

\* C13 (as claimed): what scan returns, at the end or from a step error,
\* holds initial_values, branches, results and reference_mapping, and under
\* its branches every step that was attempted, with status completed or
\* error and, when error, the message.
C13_ReturnShape ==
    opc = "returned" =>
        /\ results.has_reference_mapping
        /\ ReturnedSteps(Len(results.branches)) = EndedSteps
        /\ \A b \in 1..Len(results.branches) :
              \A i \in 1..Len(results.branches[b].steps) :
                 LET st == results.branches[b].steps[i]
                 IN  /\ st.status \in {"completed", "error"}
                     /\ st.status = "error" => st.error # <<>>


\* ------------------------------------- further claims on compute_flow_branches
\* C14: for a flow without a type node compute_flow_branches returns at once,
\* without raising, exactly one branch, with id error, that holds exactly one
\* step, whose status is error and whose type is error.
C14_NoSeedIsErrorBranch ==
    (call = "compute_flow_branches" /\ input_nodes = <<>> /\ cpc # "start") =>
        /\ cpc = "done"
        /\ stack = <<>>
        /\ Len(branches) = 1
        /\ branches[1].id.tag = "error"
        /\ branches[1].id.parts = <<>>
        /\ Len(branches[1].steps) = 1
        /\ branches[1].steps[1].status = "error"
        /\ branches[1].steps[1].type = "error"

\* C14 witness: a flow of enrichers with edges between them was compiled.
C14_Witness ==
    /\ Returned
    /\ input_nodes = <<>>
    /\ Len(edges) >= 2
    /\ branches # <<>>

\* an edge of the flow leads to what is no node of it, or a node of the flow
\* has no outputs descriptor
Malformed ==
    \/ \E e \in 1..Len(edges) : ~InNodeMap(edges[e].target)
    \/ \E n \in 1..Len(nodes) : ~nodes[n].has_outputs

\* C15 (as claimed): compute_flow_branches on a malformed flow that has a
\* type node does not raise, and returns one synthetic branch of one step
\* with status error.
C15_MalformedIsErrorBranch ==
    (call = "compute_flow_branches" /\ cpc \in {"done", "raised"}
        /\ input_nodes # <<>> /\ Malformed) =>
            /\ cpc = "done"
            /\ Len(branches) = 1
            /\ Len(branches[1].steps) = 1
            /\ branches[1].steps[1].status = "error"

\* the place of the first edge from `from` to `to` in the flow's edge list
FirstEdge(from, to) ==
    CHOOSE e \in 1..Len(edges) :
        /\ edges[e].source = from /\ edges[e].target = to
        /\ \A f \in 1..(e - 1) : ~(edges[f].source = from /\ edges[f].target = to)

\* shortest distance from a node to a leaf, as the compiler measures it
Dist(node_id) == calculate_path_length(node_id, {})

\* the step from `from` to `to` takes an edge whose target is nearest to a
\* leaf, the first such edge of the edge list
TakesNearestFirst(from, to) ==
    \A e \in 1..Len(edges) :
        edges[e].source = from =>
            /\ Dist(to) <= Dist(edges[e].target)
            /\ Dist(edges[e].target) = Dist(to) => FirstEdge(from, to) <= e

\* C16 (as claimed): the first branch returned is a shortest one, and at each
\* of its nodes that has several outgoing edges it goes on along the edge
\* whose target is nearest to a leaf, the first such edge of the edge list.
C16_ShortestMainBranch ==
    (Returned /\ input_nodes # <<>> /\ branches # <<>>) =>
        LET b == branches[1].steps
        IN  /\ \A c \in 1..Len(branches) : Len(b) <= Len(branches[c].steps)
            /\ \A k \in 1..(Len(b) - 1) :
                  Len(OutEdges(b[k].nodeId)) > 1 =>
                      TakesNearestFirst(b[k].nodeId, b[k + 1].nodeId)

\* C17 (as claimed): every branch returned for a flow with a type node starts
\* at a type node, goes along edges of the flow through nodes of the flow,
\* none twice, and ends at a node without outgoing edges.
C17_SimplePathToLeaf ==
    (Returned /\ input_nodes # <<>>) =>
        \A c \in 1..Len(branches) :
            LET b == branches[c].steps
            IN  /\ b # <<>>
                /\ b[1].type = "type"
                /\ \E n \in 1..Len(nodes) : nodes[n].id = b[1].nodeId /\ nodes[n].type = "type"
                /\ \A k \in 1..Len(b) : InNodeMap(b[k].nodeId)
                /\ \A k \in 1..(Len(b) - 1) :
                      \E e \in 1..Len(edges) :
                          edges[e].source = b[k].nodeId /\ edges[e].target = b[k + 1].nodeId
                /\ NoRepeatedNode(b)
                /\ OutEdges(b[Len(b)].nodeId) = <<>>

\* the place of a node among the input nodes, counted from 0
SeedIndex(node_id) ==
    (CHOOSE i \in 1..Len(input_nodes) : input_nodes[i].id = node_id) - 1

\* C18 (as claimed): a branch id is branch-<i> for the primary branch of the
\* i-th type node and branch-<i>-<counter> for every branch spawned at a
\* fork, at any depth.
C18_BranchIds ==
    (Returned /\ input_nodes # <<>>) =>
        \A c \in 1..Len(branches) :
            LET id == branches[c].id
            IN  /\ id.tag = "branch"
                /\ Len(id.parts) \in {1, 2}
                /\ id.parts[1] = SeedIndex(branches[c].steps[1].nodeId)

\* C17 witness: two branches were returned, one of them three steps long.
C17_Witness ==
    /\ Returned
    /\ Len(branches) >= 2
    /\ \E c \in 1..Len(branches) : Len(branches[c].steps) = 3

IsPrefix(p, q) == Len(p) <= Len(q) /\ SubSeq(q, 1, Len(p)) = p

\* C18 (amended): the primary branch of the i-th type node has id branch-<i>;
\* a branch spawned at a fork has the id of the branch it forks from followed
\* by -<counter>, so its id is branch-<i>-<counter> when it forks from a
\* primary branch and one -<counter> longer for each fork inside a forked
\* branch; no two branches share an id; one type node with two edges to two
\* leaves gives branch-0 and branch-0-1, of length 2 each.
C18_NestedBranchIds ==
    (Returned /\ input_nodes # <<>>) =>
        /\ \A c \in 1..Len(branches) :
              LET id == branches[c].id
                  b == branches[c].steps
              IN  /\ id.tag = "branch"
                  /\ id.parts[1] = SeedIndex(b[1].nodeId)
                  /\ b[1].branchId.parts = <<id.parts[1]>>
                  /\ b[Len(b)].branchId = id
                  /\ \A k \in 1..(Len(b) - 1) :
                        \/ b[k + 1].branchId = b[k].branchId
                        \/ /\ IsPrefix(b[k].branchId.parts, b[k + 1].branchId.parts)
                           /\ Len(b[k + 1].branchId.parts) = Len(b[k].branchId.parts) + 1
                           /\ Last(b[k + 1].branchId.parts) \in 1..branch_counter
        /\ \A c, d \in 1..Len(branches) : branches[c].id = branches[d].id => c = d
        /\ (nodes = <<TypeNode("n1"), EnricherNode("n2"), EnricherNode("n3")>>
              /\ edges = <<[source |-> "n1", target |-> "n2"],
                           [source |-> "n1", target |-> "n3"]>>) =>
              /\ Len(branches) = 2
              /\ branches[1].id.parts = <<0>>
              /\ branches[2].id.parts = <<0, 1>>
              /\ Len(branches[1].steps) = 2
              /\ Len(branches[2].steps) = 2

\* C18 witness: a branch that forked inside a forked branch was returned.
C18_Witness ==
    /\ Returned
    /\ \E c \in 1..Len(branches) : Len(branches[c].id.parts) = 3


\* ------------------------------------------------- launch and secrets
\* C19 (as claimed): a launch for an enricher name that is not registered is
\* answered 404 and nothing else happens: no job is queued, no Scan row is
\* written.
C19_UnknownNameIs404 ==
    (request.enricher_name \notin RegisteredEnrichers /\ tpc \notin {"none", "launch"}) =>
        /\ response = "404"
        /\ tpc = "rejected"
        /\ ~RowExists

\* the text stored under results.error
StoredError == ScanRow.results.dict[1][2].items[1]

\* C20: when a required vaultSecret parameter is held neither by the vault
\* nor by the environment, the enricher's scan is never entered, and once
\* execute was called the job has raised, its Scan row is failed and the
\* error stored names the secret.
C20_MissingSecretFailsJob ==
    (tpc # "none" /\ MissingSecrets # {}) =>
        /\ ~scan_invoked
        /\ tpc # "scanning"
        /\ tpc # "returned"
        /\ (executed /\ tpc # "executing") =>
              /\ tpc = "raised"
              /\ ScanRow.status = "failed"
              /\ \E name \in MissingSecrets :
                    \E k \in 1..Len(StoredError[2]) : StoredError[2][k] = name

\* C20 witness: a job for domain_to_asn without PDCP_API_KEY anywhere has
\* raised from execute.
C20_Witness ==
    /\ MissingSecrets = {"PDCP_API_KEY"}
    /\ executed
    /\ tpc = "raised"
    /\ ScanRow.status = "failed"


\* ------------------------------------------------- secret resolution
\* The resolution of one vaultSecret parameter P of an enricher: async_init
\* asks the vault, scan falls back on the environment.
SecretName == "HIBP_API_KEY"
VaultEntryId == "entry-1"
SecretValues == {"None", "from-entry", "from-name", "from-env"}

\* vault.get_secret(key)
vault_get_secret(key) == vault[key]

\* async_init, first query: by the vault entry identifier of params, if any
SecretById ==
    /\ spc = "init"
    /\ IF secret_param = "None"
       THEN /\ spc' = "by_name"
            /\ UNCHANGED <<vault_calls, secret>>
       ELSE /\ vault_calls' = Append(vault_calls, secret_param)
            /\ secret' = vault_get_secret(secret_param)
            /\ spc' = IF vault_get_secret(secret_param) = "None" THEN "by_name" ELSE "scan"
    /\ UNCHANGED <<secret_param, vault, environ, env_read>>
    /\ UNCHANGED <<compileVars, orchVars, taskVars, graphVars, registryVars, cleanVars>>

\* async_init, second query: by the parameter's logical name
SecretByName ==
    /\ spc = "by_name"
    /\ vault_calls' = Append(vault_calls, SecretName)
    /\ secret' = vault_get_secret(SecretName)
    /\ spc' = "scan"
    /\ UNCHANGED <<secret_param, vault, environ, env_read>>
    /\ UNCHANGED <<compileVars, orchVars, taskVars, graphVars, registryVars, cleanVars>>

\* get_secret(name, default) with the stored secrets of async_init: the
\* default even when a secret was stored
get_secret_default_first(stored, default) == IF default # "None" THEN default ELSE stored

\* Enricher.get_secret(name, default): the stored secret, else the default
get_secret(stored, default) == IF stored # "None" THEN stored ELSE default

\* to_leaks.py:80: self.get_secret("HIBP_API_KEY", os.getenv("HIBP_API_KEY"))
SecretInScan ==
    /\ spc = "scan"
    /\ secret' = get_secret(secret, environ)
    /\ env_read' = (get_secret(secret, environ) # secret)
    /\ spc' = "resolved"
    /\ UNCHANGED <<secret_param, vault, environ, vault_calls>>
    /\ UNCHANGED <<compileVars, orchVars, taskVars, graphVars, registryVars, cleanVars>>

\* an enricher is constructed with a vault, params and an environment
InitSecret ==
    /\ secret_param \in {"None", VaultEntryId}
    /\ vault \in [{VaultEntryId, SecretName} -> SecretValues]
    /\ environ \in SecretValues
    /\ vault_calls = <<>>
    /\ secret = "None"
    /\ env_read = FALSE
    /\ spc = "init"
    /\ IdleCompile
    /\ IdleOrch
    /\ IdleTask
    /\ IdleGraph
    /\ IdleRegistry
    /\ IdleClean

NextSecret ==
    \/ SecretById
    \/ SecretByName
    \/ SecretInScan

SpecSecret == InitSecret /\ [][NextSecret]_vars

AllSteps == StepsOfBranches(Len(enricher_branches))

\* the enricher steps up to the one the scan stands at
StepsBefore == StepsOfBranches(bi) \o EnricherStepsOf(enricher_branches[bi + 1], si)

\* C22: in a run the step that execute is called for is the first step, in
\* the order of the branch list and of each branch's steps, that has no log
\* entry yet, so every step before it has ended; and the entry a step leaves
\* when it ends is that of the first step without one.
C22_StepsInOrder ==
    [][scan_calls' = scan_calls =>
          /\ (opc = "step" /\ opc' = "await") =>
                /\ Len(LogEntries) < Len(AllSteps)
                /\ Last(executions')[1] = AllSteps[Len(LogEntries) + 1][2]
                /\ Len(StepsBefore) = Len(LogEntries)
          /\ LogEntries' # LogEntries =>
                /\ Len(LogEntries) < Len(AllSteps)
                /\ LogEntries' = Append(LogEntries, Last(LogEntries'))
                /\ <<Last(LogEntries').branch_id, Last(LogEntries').node_id>>
                      = AllSteps[Len(LogEntries) + 1]]_vars

\* C22 witness: execute is being awaited for a step of the second branch
\* after the steps of the first branch have ended.
C22_Witness ==
    /\ opc = "await"
    /\ bi = 1
    /\ Len(LogEntries) >= 1
    /\ Len(executions) >= 2

\* ------------------------------------------------- two runs
\* the calls of execute of the first and of the second call of scan
FirstRunExecutions == SubSeq(executions, 1, Len(executions) \div 2)

SecondRunExecutions == SubSeq(executions, Len(executions) \div 2 + 1, Len(executions))

\* C23: when scan has run twice on the same branches and seed values with
\* deterministic enrichers, the second call returns the record the first
\* returned and calls execute for the same enrichers with the same inputs in
\* the same order: nothing cached by the first call is used by the second.
C23_SecondRunSame ==
    (scan_calls = 2 /\ opc = "returned") =>
        /\ results = previous_results
        /\ Len(executions) % 2 = 0
        /\ SecondRunExecutions = FirstRunExecutions

\* C23 witness: both calls have returned and each called execute at least
\* twice and stored outputs.
C23_Witness ==
    /\ scan_calls = 2
    /\ opc = "returned"
    /\ Len(executions) >= 4
    /\ results.results # <<>>
    /\ results = previous_results

\* ------------------------------------------------- compiling a flow twice
\* a second call with the counter of the first
CompileAgainKeepsCounter ==
    /\ call = "compute_flow_branches"
    /\ cpc = "done"
    /\ ~recompiled
    /\ recompiled' = TRUE
    /\ previous_branches' = branches
    /\ cpc' = "start"
    /\ index' = 0
    /\ branches' = <<>>
    /\ stack' = <<>>
    /\ lists' = <<>>
    /\ enricher_outputs' = <<>>
    /\ UNCHANGED <<call, nodes, edges, pl_stack, pl_result, branch_counter>>
    /\ UNCHANGED <<orchVars, taskVars, graphVars, libVars>>

\* flows.py:322-352: compute_flow_branches is called again with the same
\* nodes, edges and initial value; branches, branch_counter and
\* enricher_outputs are locals of the call
CompileAgain ==
    /\ call = "compute_flow_branches"
    /\ cpc = "done"
    /\ ~recompiled
    /\ recompiled' = TRUE
    /\ previous_branches' = branches
    /\ cpc' = "start"
    /\ index' = 0
    /\ branches' = <<>>
    /\ branch_counter' = 0
    /\ stack' = <<>>
    /\ lists' = <<>>
    /\ enricher_outputs' = <<>>
    /\ UNCHANGED <<call, nodes, edges, pl_stack, pl_result>>
    /\ UNCHANGED <<orchVars, taskVars, graphVars, libVars>>

\* flows with the seed slot n1, an edge from n1 to n2 and up to ForkEdges
\* further edges, whose enrichers pass their input through or prefix it
InitCompileOutputs ==
    /\ call = "compute_flow_branches"
    /\ \E a \in {EnricherNode("n2"), SubdomainNode("n2")},
          b \in {EnricherNode("n3"), SubdomainNode("n3")} :
          nodes = <<TypeNode("n1"), a, b>>
    /\ \E more \in SeqsUpTo(EdgeSet, ForkEdges) :
          edges = <<[source |-> "n1", target |-> "n2"]>> \o more
    /\ pl_stack = <<>>
    /\ cpc = "start"
    /\ index = 0
    /\ branches = <<>>
    /\ branch_counter = 0
    /\ stack = <<>>
    /\ lists = <<>>
    /\ pl_result = 0
    /\ enricher_outputs = <<>>
    /\ recompiled = FALSE
    /\ previous_branches = <<>>
    /\ IdleOrch
    /\ IdleTask
    /\ IdleGraph
    /\ IdleLib

NextCompileOutputs ==
    \/ Start
    \/ NextSeed
    \/ SortBranches
    \/ ExploreVisit
    \/ ExploreLeaf
    \/ ExploreSkip
    \/ ExploreContinue
    \/ ExploreFork
    \/ ExploreBacktrack
    \/ CompileAgain

SpecCompileOutputs == InitCompileOutputs /\ [][NextCompileOutputs]_vars

\* C24: a second compilation of the same node list, edge list and initial
\* value returns the list the first returned: the same branches in the same
\* order, with the same ids and the same steps (nodeId, inputs, outputs,
\* depth, branchId).
C24_SameBranchesAgain ==
    (recompiled /\ Returned) => branches = previous_branches

\* C24 witness: both compilations returned a primary branch and a fork.
C24_Witness ==
    /\ recompiled
    /\ Returned
    /\ Len(branches) >= 2
    /\ \E b \in 1..Len(branches) : Len(branches[b].id.parts) = 2
    /\ branches = previous_branches

\* C29: the steps built for one enricher node carry the same outputs in
\* every branch saved, whatever inputs the node was reached with.
C29_SamePlaceholder ==
    \A b1, b2 \in 1..Len(branches) :
        \A i \in 1..Len(branches[b1].steps) :
            \A j \in 1..Len(branches[b2].steps) :
                LET s1 == branches[b1].steps[i]
                    s2 == branches[b2].steps[j]
                IN  (s1.nodeId = s2.nodeId /\ s1.type = "enricher") =>
                        s1.outputs = s2.outputs

\* C29 witness: two saved branches hold a step of the same enricher node,
\* reached with different inputs, and the two steps carry the same outputs.
C29_Witness ==
    \E b1, b2 \in 1..Len(branches) :
        \E i \in 1..Len(branches[b1].steps) :
            \E j \in 1..Len(branches[b2].steps) :
                LET s1 == branches[b1].steps[i]
                    s2 == branches[b2].steps[j]
                IN  /\ s1.nodeId = s2.nodeId
                    /\ s1.type = "enricher"
                    /\ s1.inputs # s2.inputs
                    /\ s1.outputs = s2.outputs

\* ------------------------------------------------- the type registry
\* a class: the module that defines it and its __name__
Class(module, name) == [module |-> module, name |-> name]

\* no class: what dict.get returns for a missing key
NoClass == Class("", "None")

\* classes decorated with @flowsint_type: leak.py and leak_org.py both
\* define a class named Leak
Classes ==
    {Class("leak", "Leak"), Class("leak_org", "Leak"), Class("judgment", "Judgment"),
     Class("asn", "ASN"), Class("domain", "Domain")}

\* the names looked up
TypeNames ==
    {"Leak", "leak", "LEAK", "Judgment", "judgment", "ASN", "asn", "Asn",
     "Domain", "domain", "Weapon", "weapon"}

\* str.lower on the names drawn
Lower(name) ==
    CASE name \in {"Leak", "leak", "LEAK"} -> "leak"
      [] name \in {"Judgment", "judgment"} -> "judgment"
      [] name \in {"ASN", "asn", "Asn"} -> "asn"
      [] name \in {"Domain", "domain"} -> "domain"
      [] OTHER -> "weapon"

\* registry.py:33-52
register(cls) ==
    /\ types' = Put(types, cls.name, cls)
    /\ lowercase_types' = Put(lowercase_types, Lower(cls.name), cls)

\* registry.py:54-64
get(type_name) == IF type_name \in DOMAIN types THEN types[type_name] ELSE NoClass

\* registry.py:66-76
get_lowercase(type_name) ==
    IF Lower(type_name) \in DOMAIN lowercase_types
    THEN lowercase_types[Lower(type_name)]
    ELSE NoClass

\* registry.py:106-126: a module of the package is imported and its class
\* decorated
Register ==
    /\ \E cls \in Classes :
          /\ register(cls)
          /\ registered' = registered \cup {cls}
    /\ UNCHANGED looked_up
    /\ UNCHANGED <<compileVars, orchVars, taskVars, graphVars, secretVars, cleanVars>>

\* registry.py:129-143: a lookup by exact name and one by any casing
GetType ==
    /\ \E type_name \in TypeNames :
          looked_up' = <<type_name, get(type_name), get_lowercase(type_name)>>
    /\ UNCHANGED <<types, lowercase_types, registered>>
    /\ UNCHANGED <<compileVars, orchVars, taskVars, graphVars, secretVars, cleanVars>>

\* registry.py:29-31 and 103: the registry as constructed
InitRegistry ==
    /\ types = <<>>
    /\ lowercase_types = <<>>
    /\ registered = {}
    /\ looked_up = <<"", NoClass, NoClass>>
    /\ IdleCompile
    /\ IdleOrch
    /\ IdleTask
    /\ IdleGraph
    /\ IdleSecret
    /\ IdleClean

NextRegistry ==
    \/ Register
    \/ GetType

SpecRegistry == InitRegistry /\ [][NextRegistry]_vars

\* C25 (as claimed): every class register was called with is what get
\* returns for its class name and what get_lowercase returns for any casing
\* of it, a name no class was registered under gives None, and a lookup
\* made earlier agrees with these.
C25_DoubleKeyed ==
    /\ \A cls \in registered :
          /\ get(cls.name) = cls
          /\ \A n \in TypeNames : Lower(n) = Lower(cls.name) => get_lowercase(n) = cls
    /\ \A n \in TypeNames :
          /\ (\A cls \in registered : cls.name # n) => get(n) = NoClass
          /\ (\A cls \in registered : Lower(cls.name) # Lower(n)) => get_lowercase(n) = NoClass

\* ------------------------------------------------- cleaning node records
\* fields a record handed to clean_neo4j_node_data may hold
MaxFields == 2

\* the integer 0
Zero == [kind |-> "int", items |-> <<"0">>, dict |-> <<>>]

\* __init__.py:200: the keys the graph database adds
Neo4jFields == {"sketch_id", "created_at", "type", "x", "y", "caption", "color"}

FieldNames == Neo4jFields \cup {"address"}

FieldValues == {Atom(""), None, List(<<>>), Dict(<<>>), Zero, Atom("192.168.1.1")}

\* `not v`: zero is false as well
is_falsy(v) == v \in {Atom(""), None, List(<<>>), Dict(<<>>), Zero}

\* __init__.py:203: v in ("", None, [], {})
is_empty(v) == v \in {Atom(""), None, List(<<>>), Dict(<<>>)}

\* __init__.py:197-206: a dict as the sequence of its <<key, value>> items
clean_neo4j_node_data(d) ==
    SelectSeq(d, LAMBDA item : item[1] \notin Neo4jFields /\ ~is_empty(item[2]))

\* the caller cleans a record read from the graph
Clean ==
    /\ kpc = "read"
    /\ cleaned' = clean_neo4j_node_data(node_data)
    /\ kpc' = "cleaned"
    /\ UNCHANGED <<node_data, cleaned_again>>
    /\ UNCHANGED <<compileVars, orchVars, taskVars, graphVars, secretVars, registryVars>>

\* the cleaned record is cleaned once more
CleanAgain ==
    /\ kpc = "cleaned"
    /\ cleaned_again' = clean_neo4j_node_data(cleaned)
    /\ kpc' = "again"
    /\ UNCHANGED <<node_data, cleaned>>
    /\ UNCHANGED <<compileVars, orchVars, taskVars, graphVars, secretVars, registryVars>>

\* the records drawn: up to MaxFields items with distinct keys
InitClean ==
    /\ node_data \in {d \in SeqsUpTo(FieldNames \X FieldValues, MaxFields) :
                        \A i, j \in 1..Len(d) : d[i][1] = d[j][1] => i = j}
    /\ cleaned = <<>>
    /\ cleaned_again = <<>>
    /\ kpc = "read"
    /\ IdleCompile
    /\ IdleOrch
    /\ IdleTask
    /\ IdleGraph
    /\ IdleSecret
    /\ IdleRegistry

NextClean ==
    \/ Clean
    \/ CleanAgain

SpecClean == InitClean /\ [][NextClean]_vars

\* the items of d, as a set
Items(d) == {d[i] : i \in 1..Len(d)}

C27_OneContinuationKeepsBranch ==
    [][(stack # <<>> /\ Len(stack') = Len(stack) + 1) =>
          LET new == stack'[Len(stack')]
              earlier == \E j \in 1..Top.i :
                            ~InPath(Top.out_edges[j].target, lists[Top.path])
          IN  IF earlier
              THEN /\ new.branch_id # Top.branch_id
                   /\ \A f \in 1..Len(stack) :
                         new.steps # stack[f].steps /\ new.path # stack[f].path
                   /\ lists'[new.steps] = lists[Top.steps]
                   /\ lists'[new.path] = lists[Top.path]
              ELSE /\ new.branch_id = Top.branch_id
                   /\ new.steps = Top.steps
                   /\ new.path = Top.path]_vars

\* C28: the list returned is in ascending order of the number of steps, and
\* branches with the same number of steps are in the order in which the
\* exploration saved them (a fork's counter grows with every fork, and the
\* seeds are explored in index order).
C28_SortedStable ==
    [][(cpc = "seeds" /\ cpc' = "done") =>
          /\ \A i, j \in 1..Len(branches') :
                i < j => Len(branches'[i].steps) <= Len(branches'[j].steps)
          /\ Len(branches') = Len(branches)
          /\ \A n \in 0..Len(nodes) :
                SelectSeq(branches', LAMBDA b : Len(b.steps) = n)
                    = SelectSeq(branches, LAMBDA b : Len(b.steps) = n)]_vars

\* C28 witness: a list of three branches was returned whose saving order was
\* not the order of their lengths.
C28_Witness ==
    /\ Returned
    /\ Len(branches) >= 3
    /\ Len(branches[1].steps) < Len(branches[3].steps)
    /\ \E i, j \in 1..Len(branches) :
          /\ i < j
          /\ Len(branches[i].id.parts) = 2
          /\ Len(branches[j].id.parts) = 2
          /\ branches[i].id.parts[2] > branches[j].id.parts[2]

\* ------------------------------------------------- counters of the log
\* the logged entries with the given status
EntriesWith(status) == SelectSeq(LogEntries, LAMBDA entry : entry.status = status)

\* C30 (as claimed): whenever an orchestrator exists, its log's
\* completed_steps is the number of entries with status completed, its
\* failed_steps the number of entries with status error, no entry has
\* status running, and completed_steps + failed_steps is at most
\* total_steps, the number of non-type steps of the branch list.
C30_CountersMatchEntries ==
    opc # "none" =>
        /\ execution_log.summary.completed_steps = Len(EntriesWith("completed"))
        /\ execution_log.summary.failed_steps = Len(EntriesWith("error"))
        /\ EntriesWith("running") = <<>>
        /\ execution_log.summary.total_steps = Len(AllSteps)
        /\ execution_log.summary.completed_steps + execution_log.summary.failed_steps
              <= execution_log.summary.total_steps

====
